---- MODULE Spec2Model ----
(***************************************************************************)
(* Ocean Sentinel - Environmental Threat Scoring Engine.                   *)
(*                                                                         *)
(* A state-machine model of backend/app/ml_models: AnomalyDetector         *)
(* (anomaly_detection.py), ThreatDetectionEngine (threat_detection.py),    *)
(* ThreatPredictor (prediction_models.py) and DataPreprocessor             *)
(* (data_preprocessing.py).                                                *)
(*                                                                         *)
(* Numbers.  The code computes in floating point; the model computes the   *)
(* same quantities exactly, as integers or as fractions num/den:           *)
(*   - a score or a confidence in [0,1], which the code rounds with        *)
(*     round(x, 4), is held in units of 1/10000 (Round4);                  *)
(*   - a comparison such as  weighted_score > 0.3  is cross-multiplied.    *)
(* A cell of an input table is a number >= 0, NaN (a missing value) or Str *)
(* (a non-numeric value).  The tables of the preprocessor hold tagged      *)
(* cells whose numbers are integers in thousandths, and the quotients it   *)
(* computes are rounded to the thousandth.                                 *)
(*                                                                         *)
(* Each run exercises one component (the variable component); the other    *)
(* components' variables stay at their idle values.  SpecAnomalyStat,      *)
(* SpecAnomalyEns, SpecThreat, SpecPredictor and SpecPreprocessor explore  *)
(* one component in depth, Spec the four of ml_models on smaller inputs;   *)
(* SpecSeverity, SpecAqi and SpecRisk apply one function to a range of     *)
(* arguments: ThreatDetectionAI._calculate_severity                        *)
(* (services/ai_detection.py), the AQI sub-indices of the preprocessor and *)
(* ThreatPredictor._assess_threat_severity.  SpecConcurrent interleaves    *)
(* the statements of calls made from several threads on the module-level   *)
(* anomaly_detector and threat_predictor.                                  *)
(***************************************************************************)
EXTENDS Integers, Sequences, FiniteSets, TLC

VARIABLES
    component,        \* the component instance this run exercises
    current_data,     \* anomaly: the current_data argument (list of records)
    historical_data,  \* anomaly: the historical_data the caller holds, or None
    fit_ok,           \* anomaly: which detectors fit() accepts the historical data
    predict_out,      \* anomaly: rows each fitted detector flags (NoOutput = raises)
    detector,         \* the AnomalyDetector object's fields
    anomaly_result,   \* the AnomalyResult of the last detect_anomalies call
    environmental_data, \* threat: the environmental_data argument (list of records)
    detection_models, \* threat: the detection_models argument, or None
    engine,           \* the ThreatDetectionEngine object's fields
    threat_results,   \* the list the last detect_threats call returned
    forecast_history, \* predictor: the historical_data argument (list of records)
    forecast_hours,   \* predictor: the forecast_hours argument, or None
    parameter_raises, \* predictor: whether the work on a parameter raises
    estimator_fit_ok, \* predictor: the regressors whose fit() succeeds
    estimator_output, \* predictor: what a fitted regressor predicts (NoOutput = raises)
    predictor,        \* the ThreatPredictor object's fields
    prediction_result, \* the PredictionResult of the last predict_threats call
    raw_data,         \* preprocessor: the raw_data argument
    failing_stages,   \* preprocessor: the pipeline stages in which a step raises
    feature_table,    \* the table the last prepare_features call returned
    reapplied_table,  \* the table prepare_features returned for the records of feature_table
    call_args,        \* pure functions: the name and the arguments of the application
    call_value,       \* pure functions: the value the application returned
    calls,            \* concurrent callers: the position and the reads of each call in flight
    model_state,      \* concurrent callers: which training wrote each part of a model state
    last_call,        \* the last public call: its name, arguments and the state it found
    outcome           \* how the last public call ended: "idle", "returned", "raised"

anomalyVars == <<current_data, historical_data, fit_ok, predict_out, detector,
                 anomaly_result>>
threatVars == <<environmental_data, detection_models, engine, threat_results>>

predictorVars == <<forecast_history, forecast_hours, parameter_raises,
                   estimator_fit_ok, estimator_output, predictor, prediction_result>>
preprocessorVars == <<raw_data, failing_stages, feature_table, reapplied_table>>
functionVars == <<call_args, call_value>>
concurrentVars == <<calls, model_state>>

vars == <<component, anomalyVars, threatVars, predictorVars, preprocessorVars,
          functionVars, concurrentVars, last_call, outcome>>

-----------------------------------------------------------------------------
(* Bounds of the explored inputs *)

MaxRows == 5          \* rows of a current batch on the statistical path
MaxDegenerateRows == 2 \* rows of a batch with missing or non-numeric cells
MaxEnsembleRows == 2   \* rows of the current / historical batch on the ensemble path
MaxThreatRows == 2     \* rows of a batch given to the threat detection engine
MaxRequested == 2      \* length of a detection_models list
MaxExtraRows == 1      \* rows of a forecast history beyond the minimum data points
MaxRawRows == 2        \* rows of a raw batch given to the preprocessor

-----------------------------------------------------------------------------
(* Cells, tables and arithmetic helpers *)

NaN == 0 - 1
Str == 0 - 2
Unit == 3 * 4 * 5     \* readings are multiples of Unit, so column means are whole

IsNum(c) == c >= 0

Min2(a, b) == IF a <= b THEN a ELSE b
Max2(a, b) == IF a >= b THEN a ELSE b
Abs(a) == IF a >= 0 THEN a ELSE 0 - a

RECURSIVE SumSeq(_)
SumSeq(s) == IF s = <<>> THEN 0 ELSE Head(s) + SumSeq(Tail(s))

RECURSIVE SumSq(_)
SumSq(s) == IF s = <<>> THEN 0 ELSE Head(s) * Head(s) + SumSq(Tail(s))

RECURSIVE SumOver(_, _)
SumOver(S, f) ==
    IF S = {} THEN 0
    ELSE LET x == CHOOSE y \in S : TRUE IN f[x] + SumOver(S \ {x}, f)

SeqMin(s) == CHOOSE v \in {s[i] : i \in DOMAIN s} : \A i \in DOMAIN s : v <= s[i]
SeqMax(s) == CHOOSE v \in {s[i] : i \in DOMAIN s} : \A i \in DOMAIN s : v >= s[i]

\* s with v inserted before the first larger element (s is sorted).
RECURSIVE Insert(_, _)
Insert(s, v) ==
    IF s = <<>> THEN <<v>>
    ELSE IF v <= Head(s) THEN <<v>> \o s
    ELSE <<Head(s)>> \o Insert(Tail(s), v)

RECURSIVE Sorted(_)
Sorted(s) == IF s = <<>> THEN <<>> ELSE Insert(Sorted(Tail(s)), Head(s))

\* Column names in DataFrame column order.
ColumnOrder == <<"pm25", "pm10", "temperature", "pressure">>

OrderedCols(S) == SelectSeq(ColumnOrder, LAMBDA c : c \in S)

EmptyFrame == [cols |-> {}, rows |-> <<>>]

Column(frame, c) == [i \in DOMAIN frame.rows |-> frame.rows[i][c]]

DropNa(s) == SelectSeq(s, IsNum)

\* round(x, 4) of x = num/den >= 0, in units of 1/10000 (ties to even).
Round4(num, den) ==
    LET q == (num * 10000) \div den
        r == (num * 10000) % den
    IN  IF 2 * r < den THEN q
        ELSE IF 2 * r > den THEN q + 1
        ELSE IF q % 2 = 0 THEN q ELSE q + 1

-----------------------------------------------------------------------------
(* AnomalyDetector: configuration *)

Detectors == {"isolation_forest", "local_outlier_factor", "one_class_svm",
              "elliptic_envelope"}
NoOutput == 0 - 1

\* parameter_weights, times 10; 1.0 for a column the table does not name.
ParameterWeight10(col) ==
    CASE col = "temperature" -> 10
      [] col = "pressure" -> 12
      [] col = "wind_speed" -> 11
      [] col = "humidity" -> 8
      [] col = "pm25" -> 13
      [] col = "pm10" -> 12
      [] col = "ozone" -> 11
      [] col = "water_temperature" -> 10
      [] col = "salinity" -> 9
      [] col = "wave_height" -> 10
      [] col = "tide_level" -> 8
      [] col = "visibility" -> 9
      [] OTHER -> 10

\* _calculate_severity(score) for score = num/den.
CalculateSeverity(num, den) ==
    IF 100 * num >= 95 * den THEN 5
    ELSE IF 100 * num >= 85 * den THEN 4
    ELSE IF 100 * num >= 75 * den THEN 3
    ELSE IF 100 * num >= 60 * den THEN 2
    ELSE 1

\* _create_empty_result(message)
CreateEmptyResult(message) ==
    [is_anomaly |-> FALSE, anomaly_score |-> 0, severity |-> 1, confidence |-> 0,
     affected_parameters |-> <<>>, detection_method |-> "none",
     baseline_comparison |-> {}, error |-> message]

\* _prepare_features: the numeric columns, each missing cell filled with its
\* column's mean (a column with no value at all stays missing).
ColumnMean(s) == SumSeq(DropNa(s)) \div Len(DropNa(s))

FillNaMean(s) ==
    IF DropNa(s) = <<>> THEN s
    ELSE [i \in DOMAIN s |-> IF s[i] = NaN THEN ColumnMean(s) ELSE s[i]]

PrepareFeatures(data) ==
    IF data = <<>> THEN EmptyFrame
    ELSE LET cols == DOMAIN data[1]
             numeric == {c \in cols : \A i \in DOMAIN data : data[i][c] # Str}
             filled == [c \in numeric |-> FillNaMean([j \in DOMAIN data |-> data[j][c]])]
         IN  IF numeric = {} THEN EmptyFrame
             ELSE [cols |-> numeric,
                   rows |-> [i \in DOMAIN data |-> [c \in numeric |-> filled[c][i]]]]

FrameEmpty(frame) == frame.cols = {} \/ frame.rows = <<>>

-----------------------------------------------------------------------------
(* AnomalyDetector: the statistical path *)

\* scipy.stats.zscore(values) > 3.0 for the value v of a column with n
\* values, sum S and sum of squares SS (population std; a constant column
\* gives NaN, which compares False).
ZAnomaly(v, n, S, SS) ==
    LET varN2 == n * SS - S * S
        d == n * v - S
    IN  varN2 > 0 /\ d * d > 9 * varN2

\* values.quantile(q/4), times 4 (pandas' linear interpolation between the
\* order statistics around position q/4 * (n - 1)), from the sorted values.
Quantile4(sorted, q) ==
    LET n == Len(sorted)
        pos4 == q * (n - 1)
        k == pos4 \div 4
        r == pos4 % 4
        lo == sorted[k + 1]
        hi == sorted[Min2(k + 1, n - 1) + 1]
    IN  4 * lo + r * (hi - lo)

\* v < Q1 - 1.5 * IQR  or  v > Q3 + 1.5 * IQR, for the quartiles times 4.
IqrAnomaly(v, Q1, Q3) ==
    \/ 8 * v < 2 * Q1 - 3 * (Q3 - Q1)
    \/ 8 * v > 2 * Q3 + 3 * (Q3 - Q1)

\* np.sum(z_anomalies | iqr_anomalies)
AnomalyCount(values) ==
    LET n == Len(values)
        S == SumSeq(values)
        SS == SumSq(values)
        sorted == Sorted(values)
        Q1 == Quantile4(sorted, 1)
        Q3 == Quantile4(sorted, 3)
    IN  Cardinality({i \in DOMAIN values :
            ZAnomaly(values[i], n, S, SS) \/ IqrAnomaly(values[i], Q1, Q3)})

\* weighted_score of a column, times 10 * len(values).
WeightedScoreNum(frame, c) == AnomalyCount(DropNa(Column(frame, c))) * ParameterWeight10(c)

\* Columns the loop analyses: those with at least one value.
AnalysedCols(frame) == {c \in frame.cols : DropNa(Column(frame, c)) # <<>>}

ScoreAtLeast03(w, n) == w >= 3 * n

\* weighted_score > 0.3, for the weighted score w / (10 * n)
ScoreAbove03(w, n) == w > 3 * n

\* _statistical_anomaly_detection.  Every analysed column of a prepared frame
\* has len(frame) values, so the mean of the affected weighted scores is
\* Sum(count * weight10) / (10 * len(frame) * number affected).
StatisticalAnomalyDetection(frame) ==
    LET analysed == AnalysedCols(frame)
        w == [c \in analysed |-> WeightedScoreNum(frame, c)]
        affected == {c \in analysed : ScoreAbove03(w[c], Len(frame.rows))}
        num == SumOver(affected, w)
        den == IF affected = {} THEN 1 ELSE 10 * Len(frame.rows) * Cardinality(affected)
    IN  [is_anomaly |-> 2 * num > den,
         anomaly_score |-> Round4(num, den),
         severity |-> CalculateSeverity(num, den),
         confidence |-> IF 2 * num >= den THEN 10000 ELSE Round4(2 * num, den),
         affected_parameters |-> OrderedCols(affected),
         detection_method |-> "statistical",
         baseline_comparison |-> analysed,
         error |-> ""]

-----------------------------------------------------------------------------
(* Exceptions.  A computation is [exc, val]: exc says that it raised, val   *)
(* holds the object state it leaves behind (val.det, ...) and its return    *)
(* value (val.res).                                                         *)

Returns(v) == [exc |-> FALSE, val |-> v]
Raises(v) == [exc |-> TRUE, val |-> v]

CatchNothing(comp, fallback) == comp

\* try: <comp>  except Exception: return <fallback>
Catch(comp, fallback) ==
    IF comp.exc THEN Returns([comp.val EXCEPT !.res = fallback]) ELSE comp

-----------------------------------------------------------------------------
(* AnomalyDetector: training and the ensemble path *)

\* X_hist.mean(), .std(), .min(), .max() of a column, held exactly as the
\* count, sum and sum of squares of its values, with min and max.
ColumnStats(s) ==
    LET v == DropNa(s)
    IN  [n |-> Len(v), sum |-> SumSeq(v), sumsq |-> SumSq(v),
         min |-> IF v = <<>> THEN 0 ELSE SeqMin(v),
         max |-> IF v = <<>> THEN 0 ELSE SeqMax(v)]

BaselineStats(frame) == [c \in frame.cols |-> ColumnStats(Column(frame, c))]

TrainedModelsAllOrNothing(d) ==
    IF \A m \in d.models : fit_ok[m] THEN d.models ELSE {}

\* The training loop: a detector whose fit raises is logged and left out.
TrainedModels(d) == {m \in d.models : fit_ok[m]}

\* _train_on_historical_data: the detector after the call.
TrainOnHistoricalData(d, hist) ==
    LET hist_df == PrepareFeatures(hist)
        trained_models == TrainedModels(d)
        scaled == [d EXCEPT !.scaler_fitted = TRUE, !.scaler_cols = hist_df.cols,
                            !.fitted = @ \cup trained_models]
    IN  IF FrameEmpty(hist_df) THEN d
        ELSE IF ~d.scalers THEN d                \* self.scalers['robust']: KeyError
        ELSE IF trained_models # {}
             THEN [scaled EXCEPT !.models = trained_models, !.is_trained = TRUE,
                                 !.baseline_stats = BaselineStats(hist_df)]
             ELSE scaled

\* .get(col, default) of the baseline: mean 0, std 1, min 0, max 0.
DefaultStats == [n |-> 3, sum |-> 0, sumsq |-> 2, min |-> 0, max |-> 0]

\* baseline_std > 0 (the std of fewer than two values is NaN)
StdPositive(b) == b.n >= 2 /\ b.n * b.sumsq - b.sum * b.sum > 0

\* abs((latest_value - baseline_mean) / baseline_std) > 2.0, with the sample
\* standard deviation (ddof = 1), cross-multiplied.
ZScoreAbove2(v, b) ==
    LET d == b.n * v - b.sum
    IN  d * d * (b.n - 1) > 4 * b.n * (b.n * b.sumsq - b.sum * b.sum)

\* _identify_affected_parameters
IdentifyAffectedParameters(frame, baseline) ==
    IF DOMAIN baseline = {} THEN OrderedCols(frame.cols)
    ELSE LET flagged(c) ==
                 LET values == DropNa(Column(frame, c))
                     latest == values[Len(values)]
                     b == IF c \in DOMAIN baseline THEN baseline[c] ELSE DefaultStats
                 IN  /\ values # <<>>
                     /\ StdPositive(b)
                     /\ \/ ZScoreAbove2(latest, b)
                        \/ 10 * latest < 8 * b.min
                        \/ 10 * latest > 12 * b.max
         IN  OrderedCols({c \in frame.cols : flagged(c)})

\* The detectors whose prediction on the current batch is used: the fitted
\* ones that return (an unfitted one raises NotFittedError, an unfitted
\* local_outlier_factor is skipped).
Voters(d) == {m \in d.models : m \in d.fitted /\ predict_out[m] # NoOutput}

\* The body of _ml_anomaly_detection's try block.
MlAnomalyDetectionBody(d, frame, hist) ==
    LET d1 == IF hist.given /\ hist.rows # <<>> /\ ~d.is_trained
              THEN TrainOnHistoricalData(d, hist.rows) ELSE d
        voters == Voters(d1)
        num == SumOver(voters, predict_out)
        den == Len(frame.rows) * Cardinality(voters)
    IN  IF ~d1.scalers \/ ~d1.scaler_fitted \/ d1.scaler_cols # frame.cols
        THEN Raises([det |-> d1, res |-> CreateEmptyResult("")])
        ELSE IF voters = {}
        THEN Returns([det |-> d1,
                      res |-> CreateEmptyResult("No model predictions available")])
        ELSE Returns([det |-> d1, res |->
                [is_anomaly |-> 10 * num > den,
                 anomaly_score |-> Round4(num, den),
                 severity |-> CalculateSeverity(5 * num, den),
                 confidence |-> IF 3 * num >= den THEN 10000 ELSE Round4(3 * num, den),
                 affected_parameters |-> IdentifyAffectedParameters(frame, d1.baseline_stats),
                 detection_method |-> "ensemble_ml",
                 baseline_comparison |-> voters,
                 error |-> ""]])

MlAnomalyDetection(d, frame, hist) ==
    Catch(MlAnomalyDetectionBody(d, frame, hist), CreateEmptyResult("ML detection error"))

\* detect_anomalies(current_data, historical_data): [exc, val: [det, res]].
DetectAnomalies(d, current, hist) ==
    LET current_df == PrepareFeatures(current)
        body ==
            IF FrameEmpty(current_df)
            THEN Returns([det |-> d,
                          res |-> CreateEmptyResult("No valid data for anomaly detection")])
            ELSE IF ~hist.given /\ ~d.is_trained
            THEN Catch(Returns([det |-> d, res |-> StatisticalAnomalyDetection(current_df)]),
                       CreateEmptyResult("Statistical detection error"))
            ELSE IF d.is_trained \/ (hist.given /\ hist.rows # <<>>)
            THEN MlAnomalyDetection(d, current_df, hist)
            ELSE Returns([det |-> d,
                          res |-> CreateEmptyResult("Insufficient data for anomaly detection")])
    IN  Catch(body, CreateEmptyResult("Detection error"))

-----------------------------------------------------------------------------
(* AnomalyDetector: state and operations *)

\* AnomalyDetector.__init__
ConstructedDetector ==
    [models |-> {}, fitted |-> {}, scalers |-> FALSE, scaler_fitted |-> FALSE,
     scaler_cols |-> {}, is_trained |-> FALSE, baseline_stats |-> <<>>]

NoCall == [op |-> "none", historical |-> FALSE, is_trained_before |-> FALSE,
           initialized |-> FALSE]

AD_InitializeModels ==
    /\ component = "anomaly"
    /\ detector' = [detector EXCEPT !.models = Detectors, !.fitted = {},
                                    !.scalers = TRUE, !.scaler_fitted = FALSE,
                                    !.scaler_cols = {}]
    /\ UNCHANGED <<component, current_data, historical_data, fit_ok, predict_out,
                   anomaly_result, threatVars, predictorVars, preprocessorVars,
                   functionVars, concurrentVars, last_call, outcome>>

AD_DetectAnomalies(pass_historical) ==
    LET hist == [given |-> pass_historical,
                 rows |-> IF pass_historical THEN historical_data ELSE <<>>]
        comp == DetectAnomalies(detector, current_data, hist)
    IN  /\ component = "anomaly"
        /\ detector' = comp.val.det
        /\ anomaly_result' = comp.val.res
        /\ outcome' = IF comp.exc THEN "raised" ELSE "returned"
        /\ last_call' = [op |-> "detect_anomalies", historical |-> pass_historical,
                         is_trained_before |-> detector.is_trained,
                         initialized |-> detector.scalers]
        /\ UNCHANGED <<component, current_data, historical_data, fit_ok, predict_out,
                       threatVars, predictorVars, preprocessorVars, functionVars, concurrentVars>>

NextAnomaly ==
    \/ AD_InitializeModels
    \/ \E pass_historical \in BOOLEAN : AD_DetectAnomalies(pass_historical)

-----------------------------------------------------------------------------
(* ThreatDetectionEngine *)

\* ML_MODEL_CONFIG['threat_detection']['models'], in registration order.
ThreatTypeOrder == <<"storm", "pollution", "erosion", "algal_bloom", "illegal_dumping">>

ThreatTypes == {ThreatTypeOrder[i] : i \in DOMAIN ThreatTypeOrder}

\* threat_features
ThreatFeatures(threat_type) ==
    CASE threat_type = "storm" ->
            {"wind_speed", "pressure", "temperature", "humidity", "visibility",
             "wind_direction"}
      [] threat_type = "pollution" ->
            {"pm25", "pm10", "ozone", "wind_speed", "temperature", "humidity"}
      [] threat_type = "erosion" ->
            {"wave_height", "tide_level", "wind_speed", "precipitation", "temperature"}
      [] threat_type = "algal_bloom" ->
            {"water_temperature", "salinity", "visibility", "wave_height", "tide_level"}
      [] threat_type = "illegal_dumping" ->
            {"visibility", "wind_speed", "wave_height", "water_temperature"}
      [] OTHER -> {}

\* confidence_thresholds, in 1/10000
ConfidenceThreshold(threat_type) ==
    CASE threat_type = "storm" -> 8000
      [] threat_type = "pollution" -> 7500
      [] threat_type = "erosion" -> 7000
      [] threat_type = "algal_bloom" -> 8000
      [] threat_type = "illegal_dumping" -> 8500

\* _prepare_features of the engine, then data[available_features].fillna(0):
\* every missing cell becomes 0; a non-numeric cell stays as it is.
ThreatPrepareFeatures(data) ==
    IF data = <<>> THEN EmptyFrame
    ELSE [cols |-> DOMAIN data[1],
          rows |-> [i \in DOMAIN data |->
                       [c \in DOMAIN data[i] |->
                           IF data[i][c] = NaN THEN 0 ELSE data[i][c]]]]

\* latest_data.get(col, default)
Get(row, col, default) == IF col \in DOMAIN row THEN row[col] ELSE default

Verdict(confidence, severity) == [confidence |-> confidence, severity |-> severity]

\* A comparison or a division with a non-numeric operand raises TypeError.
RuleOn(operands, verdict) ==
    IF \E i \in DOMAIN operands : operands[i] = Str
    THEN Raises([res |-> Verdict(0, 1)])
    ELSE Returns([res |-> verdict])

StormLadderSwapped(wind_speed) ==
    IF wind_speed > 118 THEN Verdict(9500, 5)
    ELSE IF wind_speed > 88 THEN Verdict(7500, 3)
    ELSE IF wind_speed > 62 THEN Verdict(8500, 4)
    ELSE IF wind_speed > 39 THEN Verdict(6500, 2)
    ELSE Verdict(0, 1)

\* The wind brackets of the storm rule.
StormLadder(wind_speed) ==
    IF wind_speed > 118 THEN Verdict(9500, 5)
    ELSE IF wind_speed > 88 THEN Verdict(8500, 4)
    ELSE IF wind_speed > 62 THEN Verdict(7500, 3)
    ELSE IF wind_speed > 39 THEN Verdict(6500, 2)
    ELSE Verdict(0, 1)

PressureBoostInclusive(verdict, pressure) ==
    IF pressure <= 980
    THEN Verdict(Min2(verdict.confidence + 1500, 10000), Min2(verdict.severity + 1, 5))
    ELSE verdict

\* Pressure drop indicates storm development.
PressureBoost(verdict, pressure) ==
    IF pressure < 980
    THEN Verdict(Min2(verdict.confidence + 1500, 10000), Min2(verdict.severity + 1, 5))
    ELSE verdict

StormRule(latest_data) ==
    LET wind_speed == Get(latest_data, "wind_speed", 0)
        pressure == Get(latest_data, "pressure", 1013)
    IN  RuleOn(<<wind_speed, pressure>>,
               PressureBoost(StormLadder(wind_speed), pressure))

PollutionRule(latest_data) ==
    LET pm25 == Get(latest_data, "pm25", 0)
        pm10 == Get(latest_data, "pm10", 0)
        ladder == IF pm25 > 75 THEN Verdict(9000, 5)
                  ELSE IF pm25 > 55 THEN Verdict(8000, 4)
                  ELSE IF pm25 > 35 THEN Verdict(7000, 3)
                  ELSE IF pm25 > 25 THEN Verdict(6000, 2)
                  ELSE Verdict(0, 1)
    IN  RuleOn(<<pm25, pm10>>,
               IF pm10 > 150
               THEN Verdict(Max2(ladder.confidence, 8000), Max2(ladder.severity, 4))
               ELSE ladder)

AlgalBloomRule(latest_data) ==
    LET water_temp == Get(latest_data, "water_temperature", 20)
        visibility == Get(latest_data, "visibility", 10)
        salinity == Get(latest_data, "salinity", 35)
        temp_factor == IF water_temp > 28 THEN 4000 ELSE IF water_temp > 25 THEN 2000 ELSE 0
        visibility_factor == IF visibility < 2 THEN 5000 ELSE IF visibility < 5 THEN 3000 ELSE 0
        salinity_factor == IF 30 <= salinity /\ salinity <= 38 THEN 2000 ELSE 0
        confidence == Min2(temp_factor + visibility_factor + salinity_factor, 10000)
    IN  RuleOn(<<water_temp, visibility, salinity>>,
               Verdict(confidence, Max2(1, Min2(5, (5 * confidence) \div 10000 + 1))))

ErosionRuleUncapped(latest_data) ==
    LET wave_height == Get(latest_data, "wave_height", 0)
        wind_speed == Get(latest_data, "wind_speed", 0)
        confidence == 600 * wave_height + 40 * wind_speed
    IN  RuleOn(<<wave_height, wind_speed>>,
               Verdict(confidence, Max2(1, Min2(5, (4 * confidence) \div 10000 + 1))))

\* wave_height in m and wind_speed in km/h are whole numbers here, so
\* min(wave_height / 10, 1) * 0.6 + min(wind_speed / 100, 1) * 0.4 is whole
\* in 1/10000.
ErosionRule(latest_data) ==
    LET wave_height == Get(latest_data, "wave_height", 0)
        wind_speed == Get(latest_data, "wind_speed", 0)
        confidence == 600 * Min2(wave_height, 10) + 40 * Min2(wind_speed, 100)
    IN  RuleOn(<<wave_height, wind_speed>>,
               Verdict(confidence, Max2(1, Min2(5, (4 * confidence) \div 10000 + 1))))

IllegalDumpingRuleConfident(latest_data) ==
    LET visibility == Get(latest_data, "visibility", 10)
    IN  RuleOn(<<visibility>>,
               IF visibility < 3 THEN Verdict(9000, 3) ELSE Verdict(0, 1))

\* illegal_dumping: visibility below 3 gives (0.60, 3), anything else leaves
\* the initial (0.0, 1).
IllegalDumpingRule(latest_data) ==
    LET visibility == Get(latest_data, "visibility", 10)
    IN  RuleOn(<<visibility>>,
               IF visibility < 3 THEN Verdict(6000, 3) ELSE Verdict(0, 1))

\* _rule_based_detection: (confidence, severity)
RuleBasedDetection(threat_type, latest_data) ==
    LET rule == CASE threat_type = "storm" -> StormRule(latest_data)
                  [] threat_type = "pollution" -> PollutionRule(latest_data)
                  [] threat_type = "algal_bloom" -> AlgalBloomRule(latest_data)
                  [] threat_type = "erosion" -> ErosionRule(latest_data)
                  [] threat_type = "illegal_dumping" -> IllegalDumpingRule(latest_data)
                  [] OTHER -> Returns([res |-> Verdict(0, 1)])
    IN  Catch(rule, Verdict(0, 1)).val.res

\* _predict_with_ensemble: the category's StandardScaler is never fitted, so
\* transform raises and the except branch returns (0.0, 1).
PredictWithEnsemble(threat_type) == Verdict(0, 1)

EnoughFeaturesStrict(available_features) == Cardinality(available_features) > 2

\* len(available_features) < 2 is the skip condition.
EnoughFeatures(available_features) == Cardinality(available_features) >= 2

\* _detect_single_threat: the list of the result, empty for None.
DetectSingleThreat(e, threat_type, data) ==
    LET available_features == ThreatFeatures(threat_type) \cap data.cols
        latest == data.rows[Len(data.rows)]
        latest_data == [c \in available_features |-> latest[c]]
        verdict == IF e.is_trained[threat_type]
                   THEN PredictWithEnsemble(threat_type)
                   ELSE RuleBasedDetection(threat_type, latest_data)
    IN  IF ~EnoughFeatures(available_features) THEN <<>>
        ELSE <<[threat_type |-> threat_type,
                confidence |-> verdict.confidence,
                severity |-> verdict.severity,
                detected |-> verdict.confidence >= ConfidenceThreshold(threat_type),
                features_used |-> available_features,
                detection_method |-> IF e.is_trained[threat_type]
                                     THEN "ensemble" ELSE "rule_based"]>>

RECURSIVE RunModels(_, _, _)
RunModels(e, data, models_to_run) ==
    IF models_to_run = <<>> THEN <<>>
    ELSE (IF Head(models_to_run) \in e.models
          THEN DetectSingleThreat(e, Head(models_to_run), data)
          ELSE <<>>) \o RunModels(e, data, Tail(models_to_run))

\* detection_models: None, a list of names, or a value that is no list.
NoFilter == [given |-> FALSE, iterable |-> TRUE, list |-> <<>>]

\* detect_threats(environmental_data, location, detection_models)
DetectThreats(e, data, requested) ==
    LET processed_data == ThreatPrepareFeatures(data)
        models_to_run == IF requested.given /\ requested.list # <<>>
                         THEN requested.list
                         ELSE SelectSeq(ThreatTypeOrder, LAMBDA t : t \in e.models)
        body == IF FrameEmpty(processed_data) THEN Returns([res |-> <<>>])
                ELSE IF requested.given /\ ~requested.iterable
                THEN Raises([res |-> <<>>])
                ELSE Returns([res |-> RunModels(e, processed_data, models_to_run)])
    IN  Catch(body, <<>>)

\* ThreatDetectionEngine.__init__
ConstructedEngine == [models |-> {}, is_trained |-> <<>>]

InitialIsTrainedSet(threat_type) == TRUE

\* _initialize_threat_model: self.is_trained[threat_type] = False
InitialIsTrained(threat_type) == FALSE

TE_InitializeModels ==
    /\ component = "threat"
    /\ engine' = [models |-> ThreatTypes,
                  is_trained |-> [t \in ThreatTypes |-> InitialIsTrained(t)]]
    /\ UNCHANGED <<component, anomalyVars, environmental_data, detection_models,
                   threat_results, predictorVars, preprocessorVars, functionVars, concurrentVars,
                   last_call, outcome>>

TE_DetectThreats ==
    LET comp == DetectThreats(engine, environmental_data, detection_models)
    IN  /\ component = "threat"
        /\ threat_results' = comp.val.res
        /\ outcome' = IF comp.exc THEN "raised" ELSE "returned"
        /\ last_call' = [op |-> "detect_threats", historical |-> FALSE,
                         is_trained_before |-> FALSE,
                         initialized |-> engine.models # {}]
        /\ UNCHANGED <<component, anomalyVars, environmental_data, detection_models,
                       engine, predictorVars, preprocessorVars, functionVars, concurrentVars>>

NextThreat == TE_InitializeModels \/ TE_DetectThreats

IdleThreat ==
    /\ environmental_data = <<>>
    /\ detection_models = NoFilter
    /\ engine = ConstructedEngine
    /\ threat_results = <<>>

-----------------------------------------------------------------------------
(* ThreatPredictor (prediction_models.py).  A predicted value is a fraction  *)
(* num/den (den > 0) in lowest terms; the library's regressors are the      *)
(* environment: estimator_fit_ok says whose fit() succeeds, and             *)
(* estimator_output what a fitted regressor predicts (NoOutput = raises).   *)

\* ML_MODEL_CONFIG['prediction']['minimum_data_points']
MinDataPoints == 50

\* ML_MODEL_CONFIG['prediction']['forecast_horizon_hours']
ForecastHorizons == <<2, 4, 8, 24>>

\* prediction_parameters
PredictionParameters ==
    {"temperature", "pressure", "wind_speed", "humidity", "pm25", "pm10", "ozone",
     "water_temperature", "wave_height", "tide_level", "visibility", "salinity"}

\* prediction_parameters, in the order of the list
PredictionParameterOrder ==
    <<"temperature", "pressure", "wind_speed", "humidity", "pm25", "pm10", "ozone",
      "water_temperature", "wave_height", "tide_level", "visibility", "salinity">>

\* The ensemble initialize_models creates for a (parameter, horizon) pair.
Estimators == {"linear", "ridge", "random_forest", "gradient_boost", "neural_network"}

RECURSIVE Gcd(_, _)
Gcd(a, b) == IF b = 0 THEN a ELSE Gcd(b, a % b)

Frac(num, den) ==
    LET g == Gcd(Abs(num), den) IN [num |-> num \div g, den |-> den \div g]

Whole(v) == [num |-> v, den |-> 1]

FracLeq(a, b) == a.num * b.den <= b.num * a.den

\* a * (pct / 100)
Scaled(a, pct) == Frac(a.num * pct, a.den * 100)

RECURSIVE IsqrtBetween(_, _, _)
IsqrtBetween(x, lo, hi) ==
    IF lo >= hi THEN lo
    ELSE LET mid == (lo + hi + 1) \div 2
         IN  IF mid * mid <= x THEN IsqrtBetween(x, mid, hi)
             ELSE IsqrtBetween(x, lo, mid - 1)

\* floor(sqrt(x))
Isqrt(x) == IsqrtBetween(x, 0, Min2(x, 40000))

\* __init__: no model, no scaler, no flag
ConstructedPredictor ==
    [models |-> <<>>, scalers |-> <<>>, is_trained |-> <<>>, model_performance |-> {}]

\* initialize_models: for every parameter and every configured horizon a fresh
\* ensemble, a fresh scaler and is_trained = False.
RegisteredKeys == PredictionParameters \X {ForecastHorizons[i] : i \in DOMAIN ForecastHorizons}

FreshEnsemble ==
    [estimators |-> Estimators, fitted |-> FALSE, label_step |-> 0, features |-> "none"]

InitializedPredictor(p) ==
    [p EXCEPT !.models = [k \in RegisteredKeys |-> FreshEnsemble],
              !.scalers = [k \in RegisteredKeys |-> [fitted |-> FALSE]],
              !.is_trained = [k \in RegisteredKeys |-> FALSE]]

\* _create_empty_prediction(message)
CreateEmptyPrediction(message) ==
    [predictions |-> <<>>, confidence_intervals |-> <<>>, trend_analysis |-> <<>>,
     risk_assessment |-> <<>>, alerts_predicted |-> <<>>, provenance |-> <<>>,
     forecast_hours |-> ForecastHorizons, error |-> message]

\* forecast_hours: None, a list of hours, or a value that is no list.
DefaultHours == [given |-> FALSE, iterable |-> TRUE, list |-> <<>>]

\* _prepare_features: the table of the records, the missing cells of its
\* numeric columns filled with 0 (a column that holds a non-numeric value is
\* no numeric column).  The records of this model are in wide format and
\* carry no timestamp.
PredictorPrepareFeatures(data) ==
    IF data = <<>> THEN EmptyFrame
    ELSE LET cols == DOMAIN data[1]
             numeric == {c \in cols : \A i \in DOMAIN data : data[i][c] # Str}
         IN  [cols |-> cols,
              rows |-> [i \in DOMAIN data |->
                          [c \in cols |-> IF c \in numeric /\ data[i][c] = NaN THEN 0
                                          ELSE data[i][c]]]]

\* len(X) of _create_time_series_features(values, max_forecast_hour) for n values
SampleCount(n, max_forecast_hour) ==
    LET window_size == Max2(3, Min2(24, n \div 3))
    IN  Max2(0, n - max_forecast_hour - window_size)

\* _create_time_series_features: one example per i in
\* range(window_size, len(values) - max_forecast_hour); its features are
\* computed from values[i - window_size : i], its label is
\* values[i + max_forecast_hour].  A non-numeric value in a window makes the
\* statistics raise, and the function returns no example.
CreateTimeSeriesFeatures(values, max_forecast_hour) ==
    LET n == Len(values)
        window_size == Max2(3, Min2(24, n \div 3))
        count == SampleCount(n, max_forecast_hour)
        examples == [k \in 1 .. count |->
                        [window_start |-> k - 1,
                         window_end |-> window_size + k - 1,
                         label_index |-> window_size + k - 1 + max_forecast_hour]]
    IN  \* the windows cover values[0 : window_size + count - 1] (a slice ends
        \* at the last value at the latest)
        IF count > 0 /\ \E j \in 1 .. Min2(n, window_size + count - 1) : values[j] = Str
        THEN <<>>
        ELSE examples

\* The features a regressor is fitted on: model.fit(X_train_scaled, y_train),
\* X_train_scaled = scaler.fit_transform(X_train).
TrainingFeatures == "scaled"

\* The features a regressor predicts from: model.predict(latest_features),
\* latest_features = X[-1:], the last example as built from the values.
LatestFeatures == "unscaled"

\* is_trained.get(parameter, {}).get(forecast_hour, False)
IsTrained(p, key) == key \in DOMAIN p.is_trained /\ p.is_trained[key]

\* _train_parameter_models: fewer than 10 examples train nothing; a pair that
\* initialize_models has not registered has no scaler (KeyError, caught); the
\* scaler is fitted, then every regressor of the ensemble; the regressors
\* whose fit succeeded replace the ensemble and the pair becomes trained.
TrainParameterModels(p, key, examples) ==
    IF Len(examples) < 10 \/ key \notin DOMAIN p.scalers THEN p
    ELSE LET scaled == [p EXCEPT !.scalers[key] = [fitted |-> TRUE]]
             trained_models == {m \in p.models[key].estimators : estimator_fit_ok[m]}
         IN  IF trained_models = {} THEN scaled
             ELSE [scaled EXCEPT
                      !.models[key] =
                          [estimators |-> trained_models, fitted |-> TRUE,
                           label_step |-> examples[1].label_index - examples[1].window_end,
                           features |-> TrainingFeatures],
                      !.is_trained[key] = TRUE,
                      !.model_performance = @ \cup {key}]

\* _simple_trend_prediction: the least-squares line through the last 12 values
\* (x = 0, 1, ...), evaluated at x = len(recent_values) + forecast_hour.
SimpleTrendPrediction(values, forecast_hour) ==
    IF Len(values) < 2
    THEN (IF Len(values) > 0 THEN Whole(values[Len(values)]) ELSE Whole(0))
    ELSE LET n == Min2(12, Len(values))
             recent == SubSeq(values, Len(values) - n + 1, Len(values))
             Sx == (n * (n - 1)) \div 2
             Sxx == ((n - 1) * n * (2 * n - 1)) \div 6
             Sy == SumSeq(recent)
             Sxy == SumSeq([i \in 1 .. n |-> (i - 1) * recent[i]])
             D == n * Sxx - Sx * Sx
             slope_num == n * Sxy - Sx * Sy       \* slope = slope_num / D
         IN  \* slope * (n + forecast_hour) + intercept,
             \* intercept = (Sy - slope * Sx) / n
             Frac(slope_num * (n + forecast_hour) * n + Sy * D - slope_num * Sx, D * n)

\* _analyze_trend: the relative change from the latest value to
\* predictions[-1], in percent; a latest value of 0 divides by zero, which
\* gives inf, -inf or nan and no exception (nan compares False).
AnalyzeTrend(historical_values, predictions) ==
    IF predictions = <<>> \/ historical_values = <<>> THEN "unknown"
    ELSE LET current_value == historical_values[Len(historical_values)]
             future_value == predictions[Len(predictions)]
             change == future_value.num - current_value * future_value.den
         IN  IF current_value = 0
             THEN (IF change > 0 THEN "increasing" ELSE "decreasing")
             ELSE IF Abs(change) * 100 < 5 * current_value * future_value.den
                  THEN "stable"
             ELSE IF change > 0 THEN "increasing"
             ELSE "decreasing"

\* risk_thresholds
RiskThresholds(parameter) ==
    CASE parameter = "wind_speed" -> <<39, 62, 88, 118>>
      [] parameter = "pressure" -> <<1000, 990, 980, 970>>
      [] parameter = "pm25" -> <<25, 35, 55, 75>>
      [] parameter = "pm10" -> <<50, 100, 150, 250>>
      [] parameter = "wave_height" -> <<2, 4, 6, 8>>
      [] parameter = "temperature" -> <<30, 35, 40, 45>>
      [] parameter = "water_temperature" -> <<25, 28, 30, 32>>
      [] parameter = "visibility" -> <<5, 3, 2, 1>>
      [] OTHER -> <<>>

\* _assess_threat_severity: for pressure and visibility the first threshold
\* the value is at or below decides; for the others the last threshold the
\* value has reached.
AssessThreatSeverity(parameter, value) ==
    LET thresholds == RiskThresholds(parameter)
        met(i) == IF parameter \in {"pressure", "visibility"}
                  THEN value.num <= thresholds[i] * value.den
                  ELSE value.num >= thresholds[i] * value.den
        hits == {i \in DOMAIN thresholds : met(i)}
    IN  IF thresholds = <<>> \/ hits = {} THEN 1
        ELSE IF parameter \in {"pressure", "visibility"}
             THEN (CHOOSE i \in hits : \A j \in hits : i <= j) + 1
        ELSE Min2((CHOOSE i \in hits : \A j \in hits : i >= j) + 1, 5)

\* One entry of predictions / confidence_intervals; method and label_step
\* record how the value was produced (the label step of the regressors that
\* produced it, 0 when no regressor did), features the kind of feature vector
\* the regressors were given ("none" when no regressor predicted).
Entry(value, lower, upper, method, label_step) ==
    [value |-> value, lower |-> lower, upper |-> upper, method |-> method,
     label_step |-> label_step, features |-> "none"]

\* np.mean and np.std of the ensemble's predictions, and mean -/+ 1.96 * std
\* (the square root is taken to one decimal).
EnsembleEntry(outputs, label_step) ==
    LET k == Len(outputs)
        S == SumSeq(outputs)
        spread == 196 * Isqrt(100 * (k * SumSq(outputs) - S * S))
    IN  [Entry(Frac(S, k), Frac(1000 * S - spread, 1000 * k),
               Frac(1000 * S + spread, 1000 * k), "ensemble", label_step)
            EXCEPT !.features = LatestFeatures]

\* The estimators of an ensemble in the order of the dict.
EstimatorOrder == <<"linear", "ridge", "random_forest", "gradient_boost", "neural_network">>

\* The body of the loop over forecast_hours in _predict_parameter, for one
\* forecast_hour: train the pair if it is not trained, then predict with its
\* ensemble; no ensemble gives the trend prediction, an ensemble of which no
\* regressor predicts (not fitted, or predict raises) the latest value.
PredictForHour(p, parameter, values, examples, forecast_hour) ==
    LET key == <<parameter, forecast_hour>>
        trend_entry(trend_pred) ==
            Entry(trend_pred, Scaled(trend_pred, 90), Scaled(trend_pred, 110), "trend", 0)
        last_entry(last_value) ==
            Entry(last_value, Scaled(last_value, 95), Scaled(last_value, 105),
                  "last_value", 0)
        ensemble_entry(outputs, label_step) ==
            IF outputs # <<>> THEN EnsembleEntry(outputs, label_step)
            ELSE last_entry(Whole(values[Len(values)]))
        outputs_of(predicting) ==
            [i \in DOMAIN predicting |-> estimator_output[predicting[i]]]
        with(after) ==
            [predictor |-> after,
             entry |->
                IF ~(key \in DOMAIN after.models /\ after.models[key].estimators # {})
                THEN trend_entry(SimpleTrendPrediction(values, forecast_hour))
                ELSE ensemble_entry(
                         outputs_of(SelectSeq(EstimatorOrder,
                             LAMBDA m : /\ m \in after.models[key].estimators
                                        /\ after.models[key].fitted
                                        /\ estimator_output[m] # NoOutput)),
                         after.models[key].label_step)]
    IN  with(IF IsTrained(p, key) THEN p ELSE TrainParameterModels(p, key, examples))

\* The loop over forecast_hours: the predictor as the trainings leave it, and
\* one entry per forecast_hour.
RECURSIVE PredictHours(_, _, _, _, _)
PredictHours(p, parameter, values, examples, hours) ==
    LET join(first, rest) ==
            [predictor |-> rest.predictor, entries |-> <<first.entry>> \o rest.entries]
        then(first) ==
            join(first, PredictHours(first.predictor, parameter, values, examples,
                                     Tail(hours)))
    IN  IF hours = <<>> THEN [predictor |-> p, entries |-> <<>>]
        ELSE then(PredictForHour(p, parameter, values, examples, Head(hours)))

\* max(predictions)
RECURSIVE MaxFrac(_)
MaxFrac(s) ==
    IF Len(s) = 1 THEN s[1]
    ELSE LET m == MaxFrac(Tail(s)) IN IF FracLeq(m, s[1]) THEN s[1] ELSE m

ParameterResult(p, entries, trend, risk) ==
    [predictor |-> p, entries |-> entries, trend |-> trend, risk |-> risk]

\* _predict_parameter: the values of the column without its missing cells;
\* fewer than 10 values, no example, or an exception give no prediction.
PredictParameter(p, frame, parameter, hours, raises) ==
    LET summary(values, run, predictions) ==
            ParameterResult(run.predictor, run.entries, AnalyzeTrend(values, predictions),
                            AssessThreatSeverity(parameter, MaxFrac(predictions)))
        predicted(values, run) ==
            summary(values, run, [i \in DOMAIN run.entries |-> run.entries[i].value])
        trained(values, examples) ==
            IF examples = <<>> THEN ParameterResult(p, <<>>, "insufficient_features", 1)
            ELSE predicted(values, PredictHours(p, parameter, values, examples, hours))
        of(values) ==
            IF Len(values) < 10 THEN ParameterResult(p, <<>>, "insufficient_data", 1)
            ELSE trained(values, CreateTimeSeriesFeatures(values, SeqMax(hours)))
    IN  IF raises THEN ParameterResult(p, <<>>, "error", 1)
        ELSE of(SelectSeq(Column(frame, parameter), LAMBDA c : c # NaN))

\* f with the key k bound to v
With(f, k, v) == [x \in DOMAIN f \cup {k} |-> IF x = k THEN v ELSE f[x]]

\* The alerts of one parameter: the horizons whose predicted value has
\* severity 3 or more.
ParameterAlerts(parameter, hours, entries) ==
    LET alert(i, severity) ==
            [parameter |-> parameter, forecast_hour |-> hours[i], severity |-> severity]
        severities == [i \in DOMAIN entries |->
                          AssessThreatSeverity(parameter, entries[i].value)]
        alerting(rated) == SelectSeq([i \in DOMAIN hours |-> i],
                                     LAMBDA i : i <= Len(rated) /\ rated[i] >= 3)
        alerts(rated, chosen) == [j \in DOMAIN chosen |-> alert(chosen[j], rated[chosen[j]])]
        of(rated) == alerts(rated, alerting(rated))
    IN  of(severities)

\* The loop over prediction_parameters in predict_threats.
RECURSIVE PredictParameters(_, _, _, _, _, _)
PredictParameters(p, frame, parameters, hours, raises, result) ==
    LET parameter == Head(parameters)
        values_of(entries, f(_)) == [i \in DOMAIN entries |-> f(entries[i])]
        recorded(r) ==
            [result EXCEPT
                !.predictions = With(@, parameter, values_of(r.entries, LAMBDA e : e.value)),
                !.confidence_intervals =
                    With(@, parameter,
                         values_of(r.entries,
                                   LAMBDA e : [lower |-> e.lower, upper |-> e.upper])),
                !.trend_analysis = With(@, parameter, r.trend),
                !.risk_assessment = With(@, parameter, r.risk),
                !.alerts_predicted = @ \o ParameterAlerts(parameter, hours, r.entries),
                !.provenance =
                    With(@, parameter,
                         values_of(r.entries, LAMBDA e : [method |-> e.method,
                                                          label_step |-> e.label_step,
                                                          features |-> e.features]))]
        then(r) == PredictParameters(r.predictor, frame, Tail(parameters), hours, raises,
                                     recorded(r))
    IN  IF parameters = <<>> THEN [predictor |-> p, res |-> result]
        ELSE IF parameter \notin frame.cols
        THEN PredictParameters(p, frame, Tail(parameters), hours, raises, result)
        ELSE then(PredictParameter(p, frame, parameter, hours, raises))

InsufficientDataEmptyOnly(df) == FrameEmpty(df)

\* df.empty or len(df) < self.min_data_points
InsufficientData(df) == FrameEmpty(df) \/ Len(df.rows) < MinDataPoints

\* predict_threats(historical_data, location, forecast_hours): val.res is the
\* PredictionResult, val.predictor the predictor as the call leaves it.
PredictThreats(p, history, hours, raises) ==
    LET horizons == IF hours.given /\ hours.list # <<>> THEN hours.list
                    ELSE ForecastHorizons
        body(df) ==
            IF InsufficientData(df)
            THEN Returns([res |-> CreateEmptyPrediction("Insufficient historical data"),
                          predictor |-> p])
            ELSE IF hours.given /\ ~hours.iterable
            THEN (IF PredictionParameters \cap df.cols # {}
                  THEN Raises([res |-> CreateEmptyPrediction(""), predictor |-> p])
                       \* max(forecast_hours), then enumerate(forecast_hours)
                  ELSE Returns([res |-> [CreateEmptyPrediction("") EXCEPT
                                            !.forecast_hours = <<>>],
                                predictor |-> p]))
            ELSE Returns(PredictParameters(p, df, PredictionParameterOrder, horizons, raises,
                             [CreateEmptyPrediction("") EXCEPT !.forecast_hours = horizons]))
    IN  Catch(body(PredictorPrepareFeatures(history)),
              CreateEmptyPrediction("Prediction error"))

\* initialize_models()
TP_InitializeModels ==
    /\ component = "predictor"
    /\ predictor' = InitializedPredictor(predictor)
    /\ outcome' = "returned"
    /\ last_call' = [op |-> "initialize_prediction_models", historical |-> FALSE,
                     is_trained_before |-> FALSE, initialized |-> TRUE]
    /\ UNCHANGED <<component, anomalyVars, threatVars, forecast_history, forecast_hours,
                   parameter_raises, estimator_fit_ok, estimator_output,
                   prediction_result, preprocessorVars, functionVars, concurrentVars>>

\* predict_threats(history, location, hours) on the predictor as it is; the
\* location is copied to the metadata of the result and not read otherwise.
PredictThreatsCall(history, location, hours, raises) ==
    LET ends(comp) ==
            /\ predictor' = comp.val.predictor
            /\ prediction_result' = comp.val.res
            /\ outcome' = IF comp.exc THEN "raised" ELSE "returned"
    IN  /\ component = "predictor"
        /\ forecast_history' = history
        /\ forecast_hours' = hours
        /\ parameter_raises' = raises
        /\ ends(PredictThreats(predictor, history, hours, raises))
        /\ last_call' = [op |-> "predict_threats", historical |-> TRUE,
                         is_trained_before |-> FALSE,
                         initialized |-> predictor.models # <<>>,
                         location |-> location]
        /\ UNCHANGED <<component, anomalyVars, threatVars, estimator_fit_ok,
                       estimator_output, preprocessorVars, functionVars, concurrentVars>>

NoPrediction == [CreateEmptyPrediction("no call yet") EXCEPT !.forecast_hours = <<>>]

IdlePredictor ==
    /\ forecast_history = <<>>
    /\ forecast_hours = DefaultHours
    /\ parameter_raises = FALSE
    /\ estimator_fit_ok = [m \in Estimators |-> TRUE]
    /\ estimator_output = [m \in Estimators |-> 0]
    /\ predictor = ConstructedPredictor
    /\ prediction_result = NoPrediction

-----------------------------------------------------------------------------
(* DataPreprocessor (data_preprocessing.py).  A table is held by columns:   *)
(* its number of rows, the dtype of every column and the cells of every     *)
(* column.  A numeric cell is an integer number of thousandths; quotients   *)
(* are rounded to the thousandth.  The raw records are in wide format, all  *)
(* with the same keys, and no two keys standardise to the same name.        *)

Stages == {"clean_and_standardize", "handle_missing_values", "handle_outliers",
           "engineer_features", "scale_features"}

\* Cells of a raw record and of a table
Num(v) == [kind |-> "num", v |-> v]             \* a number, in thousandths
Missing == [kind |-> "nan", v |-> 0]            \* None / NaN
Text == [kind |-> "str", v |-> 0]               \* a string that is no number
Time(h) == [kind |-> "time", v |-> h]           \* a timestamp: hours since Monday 2024-01-01T00:00
NaT == [kind |-> "nat", v |-> 0]                \* a missing timestamp
Place == [kind |-> "obj", v |-> 0]              \* a location value (a dict or a name)

\* The place of an unparseable timestamp string among the timestamps in order
LastKey == 1000000

IsMissing(cell) == cell.kind \in {"nan", "nat"}

\* a / b rounded to the nearest integer (b > 0)
DivRound(a, b) ==
    IF a >= 0 THEN (2 * a + b) \div (2 * b) ELSE 0 - ((2 * (0 - a) + b) \div (2 * b))

\* 1000 * a / b rounded to the nearest integer (b > 0), digit by digit
MilliQuotient(a, b) ==
    LET n == Abs(a)
        r0 == n % b
        r1 == (10 * r0) % b
        r2 == (10 * r1) % b
        r3 == (10 * r2) % b
        q == 1000 * (n \div b) + 100 * ((10 * r0) \div b) + 10 * ((10 * r1) \div b)
               + ((10 * r2) \div b) + (IF 2 * r3 >= b THEN 1 ELSE 0)
    IN  IF a >= 0 THEN q ELSE 0 - q

\* pd.DataFrame()
EmptyTable == [empty |-> TRUE, n_rows |-> 0, applied |-> {}, dtype |-> <<>>, data |-> <<>>]

\* A stage catches what its steps raise and returns the table it has.
AppliedStages(failing) == Stages \ failing

Columns(df) == DOMAIN df.dtype

NumericCols(df) == {c \in Columns(df) : df.dtype[c] = "number"}

\* The values of a numeric column that are not missing (dropna)
Present(cells) == SelectSeq(cells, LAMBDA cell : ~IsMissing(cell))

Values(cells) == [i \in DOMAIN Present(cells) |-> Present(cells)[i].v]

\* _standardize_column_name, on the keys of the explored records
StandardizeColumnName(column_name) ==
    CASE column_name = "Temp" -> "temp"
      [] column_name = "Wind Speed" -> "wind_speed"
      [] column_name = "PM25" -> "pm25"
      [] OTHER -> column_name

\* parameter_mappings
ParameterMappings ==
    [temp |-> "temperature", air_temp |-> "temperature",
     water_temp |-> "water_temperature", sea_temp |-> "water_temperature",
     rh |-> "humidity", relative_humidity |-> "humidity", wspd |-> "wind_speed",
     wind |-> "wind_speed", wdir |-> "wind_direction", pres |-> "pressure",
     atm_pressure |-> "pressure", vis |-> "visibility", wave |-> "wave_height",
     tide |-> "tide_level", sal |-> "salinity", o3 |-> "ozone",
     no2 |-> "nitrogen_dioxide", so2 |-> "sulfur_dioxide", co |-> "carbon_monoxide"]

CanonicalName(column_name) ==
    LET col == StandardizeColumnName(column_name)
    IN  IF col \in DOMAIN ParameterMappings THEN ParameterMappings[col] ELSE col

\* parameter_ranges, in thousandths
ParameterRanges ==
    [temperature |-> <<0 - 50000, 60000>>, water_temperature |-> <<0 - 5000, 40000>>,
     humidity |-> <<0, 100000>>, pressure |-> <<900000, 1100000>>,
     wind_speed |-> <<0, 200000>>, wind_direction |-> <<0, 360000>>,
     visibility |-> <<0, 50000>>, wave_height |-> <<0, 30000>>,
     tide_level |-> <<0 - 5000, 5000>>, salinity |-> <<0, 45000>>,
     pm25 |-> <<0, 500000>>, pm10 |-> <<0, 1000000>>, ozone |-> <<0, 300000>>,
     nitrogen_dioxide |-> <<0, 200000>>, sulfur_dioxide |-> <<0, 100000>>,
     carbon_monoxide |-> <<0, 50000>>]

TimestampColumns == {"timestamp", "created_at", "updated_at"}
SpatialColumns == {"location", "lat", "lng", "latitude", "longitude"}

\* pd.DataFrame(raw_data): one column per key; a column of numbers and
\* missing values is numeric, any other column holds objects.
TableOf(rows) ==
    LET keys == DOMAIN rows[1]
        cells(c) == [i \in DOMAIN rows |-> rows[i][c]]
    IN  [empty |-> keys = {}, n_rows |-> Len(rows), applied |-> {},
         dtype |-> [c \in keys |->
                      IF \A i \in DOMAIN rows : rows[i][c].kind \in {"num", "nan"}
                      THEN "number" ELSE "object"],
         data |-> [c \in keys |-> cells(c)]]

\* pd.to_datetime(column, errors='coerce')
ToDatetime(cell) == IF cell.kind = "time" THEN cell ELSE NaT

\* pd.to_numeric(column, errors='coerce')
ToNumeric(cell) == IF cell.kind = "num" THEN cell ELSE Missing

\* Set a value outside the parameter's valid range to NaN.
RangeFiltered(col, cell) ==
    IF /\ col \in DOMAIN ParameterRanges
       /\ cell.kind = "num"
       /\ (cell.v < ParameterRanges[col][1] \/ cell.v > ParameterRanges[col][2])
    THEN Missing ELSE cell

\* A table restricted to the columns keep
Restrict(df, keep) ==
    [df EXCEPT !.dtype = [c \in keep |-> df.dtype[c]],
               !.data = [c \in keep |-> df.data[c]]]

\* The parameter names a long-format record carries in its data_type field
DataTypeNames == <<"temp", "wspd", "PM25", "humidity">>

\* A data_type value: the k-th of DataTypeNames
Name(k) == [kind |-> "name", v |-> k]

\* The distinct elements of a set of integers in ascending order
RECURSIVE Ascending(_)
Ascending(S) ==
    IF S = {} THEN <<>>
    ELSE LET least == CHOOSE x \in S : \A y \in S : x <= y
         IN  <<least>> \o Ascending(S \ {least})

\* lines 158-166: the columns under their standardised and mapped names
Renamed(df) ==
    LET origin == [c \in {CanonicalName(k) : k \in Columns(df)} |->
                      CHOOSE k \in Columns(df) : CanonicalName(k) = c]
    IN  [df EXCEPT !.dtype = [c \in DOMAIN origin |-> df.dtype[origin[c]]],
                   !.data = [c \in DOMAIN origin |-> df.data[origin[c]]]]

LongFormat(df) == {"data_type", "value"} \subseteq Columns(df)

\* lines 169-180: df.pivot_table(index, columns='data_type', values='value',
\* aggfunc='mean').reset_index(): one row per timestamp (per row number
\* when there is no timestamp column) in ascending order, one column per
\* data_type under its standardised name, the mean of the values of a
\* (row, data_type) pair in the cell; pairs without a value are left out.
Pivoted(df) ==
    LET keyed == "timestamp" \in Columns(df)
        valued == {i \in 1 .. df.n_rows :
                      /\ df.data["data_type"][i].kind = "name"
                      /\ df.data["value"][i].kind = "num"
                      /\ keyed => df.data["timestamp"][i].kind \in {"time", "str"}}
        key(i) == IF ~keyed THEN i - 1
                  ELSE IF df.data["timestamp"][i].kind = "time" THEN df.data["timestamp"][i].v
                  ELSE LastKey
        keys == Ascending({key(i) : i \in valued})
        names == {df.data["data_type"][i].v : i \in valued}
        column(k) == StandardizeColumnName(DataTypeNames[k])
        group(r, k) == {i \in valued : key(i) = keys[r] /\ df.data["data_type"][i].v = k}
        mean(G) == IF G = {} THEN Missing
                   ELSE Num(DivRound(SumOver(G, [i \in G |-> df.data["value"][i].v]),
                                     Cardinality(G)))
        index == IF keyed THEN "timestamp" ELSE "index"
        index_cell(r) == IF ~keyed THEN Num(1000 * keys[r])
                         ELSE IF keys[r] = LastKey THEN Text ELSE Time(keys[r])
    IN  [empty |-> FALSE, n_rows |-> Len(keys), applied |-> df.applied,
         dtype |-> [c \in {index} \cup {column(k) : k \in names} |->
                      IF c = "timestamp" THEN "object" ELSE "number"],
         data |-> [c \in {index} \cup {column(k) : k \in names} |->
                      IF c = index THEN [r \in DOMAIN keys |-> index_cell(r)]
                      ELSE [r \in DOMAIN keys |->
                               mean(group(r, CHOOSE k \in names : column(k) = c))]]]

\* _clean_and_standardize: canonical column names, the pivot of long-format
\* records, the conversion of every column by its name, the removal of the
\* columns without any value, then the enforcement of the valid ranges.
\* pivot_table raises when the value column holds anything but numbers.
CleanAndStandardize(df) ==
    LET convert(c, cell) == IF c \in TimestampColumns THEN ToDatetime(cell)
                            ELSE IF c \in SpatialColumns THEN cell
                            ELSE ToNumeric(cell)
        converted(table) ==
            [table EXCEPT
                !.dtype = [c \in Columns(table) |->
                              IF c \in TimestampColumns THEN "datetime"
                              ELSE IF c \in SpatialColumns THEN table.dtype[c]
                              ELSE "number"],
                !.data = [c \in Columns(table) |->
                             [i \in 1 .. table.n_rows |-> convert(c, table.data[c][i])]]]
        nonempty(table) ==
            Restrict(table, {c \in Columns(table) :
                                \E i \in 1 .. table.n_rows : ~IsMissing(table.data[c][i])})
        in_range(table) ==
            [table EXCEPT
                !.data = [c \in Columns(table) |->
                            IF table.dtype[c] = "number"
                            THEN [i \in 1 .. table.n_rows |->
                                     RangeFiltered(c, table.data[c][i])]
                            ELSE table.data[c]]]
        shaped(renamed) ==
            IF ~LongFormat(renamed) THEN in_range(nonempty(converted(renamed)))
            ELSE IF renamed.dtype["value"] # "number" THEN renamed
            ELSE in_range(nonempty(converted(Pivoted(renamed))))
    IN  shaped(Renamed(df))

\* df.sort_values('timestamp'): the row numbers in ascending order of their
\* timestamp, the rows without one last, equal timestamps in their order.
RECURSIVE InsertRow(_, _, _)
InsertRow(order, times, i) ==
    LET before(a, b) == /\ times[a].kind = "time"
                        /\ (times[b].kind # "time" \/ times[a].v <= times[b].v)
    IN  IF order = <<>> THEN <<i>>
        ELSE IF before(order[Len(order)], i) \/ times[i].kind # "time"
             THEN Append(order, i)
             ELSE Append(InsertRow(SubSeq(order, 1, Len(order) - 1), times, i),
                         order[Len(order)])

RECURSIVE RowOrder(_, _)
RowOrder(times, n) ==
    IF n = 0 THEN <<>> ELSE InsertRow(RowOrder(times, n - 1), times, n)

SortValues(df, by) ==
    LET order == RowOrder(df.data[by], df.n_rows)
    IN  [df EXCEPT !.data = [c \in Columns(df) |->
                                [i \in 1 .. df.n_rows |-> df.data[c][order[i]]]]]

HasMissing(cells) == \E i \in DOMAIN cells : IsMissing(cells[i])

\* Series.interpolate(method='linear', limit_direction='both'): a gap
\* between two values is filled on the straight line between them by row
\* position, a gap at either end with the nearest value; a column without
\* any value stays as it is.
Interpolate(cells) ==
    LET valid == {i \in DOMAIN cells : ~IsMissing(cells[i])}
        prev(i) == CHOOSE a \in valid : a < i /\ \A b \in valid : b < i => b <= a
        next(i) == CHOOSE a \in valid : a > i /\ \A b \in valid : b > i => b >= a
        fill(i) ==
            IF \A a \in valid : a > i THEN cells[next(i)]
            ELSE IF \A a \in valid : a < i THEN cells[prev(i)]
            ELSE Num(cells[prev(i)].v +
                     DivRound((cells[next(i)].v - cells[prev(i)].v) * (i - prev(i)),
                              next(i) - prev(i)))
    IN  IF valid = {} THEN cells
        ELSE [i \in DOMAIN cells |-> IF i \in valid THEN cells[i] ELSE fill(i)]

\* Series.fillna(method='ffill').fillna(method='bfill')
FillForwardBackward(cells) ==
    LET valid == {i \in DOMAIN cells : ~IsMissing(cells[i])}
        prev(i) == CHOOSE a \in valid : a < i /\ \A b \in valid : b < i => b <= a
        next(i) == CHOOSE a \in valid : a > i /\ \A b \in valid : b > i => b >= a
    IN  IF valid = {} THEN cells
        ELSE [i \in DOMAIN cells |->
                 IF i \in valid THEN cells[i]
                 ELSE IF \E a \in valid : a < i THEN cells[prev(i)]
                 ELSE cells[next(i)]]

\* DataFrame.fillna(0) on the numeric columns
FillZero(cells) == [i \in DOMAIN cells |-> IF IsMissing(cells[i]) THEN Num(0) ELSE cells[i]]

\* _handle_missing_values with the 'interpolation' strategy
HandleMissingValues(df) ==
    LET numeric_cols == NumericCols(df)
        ordered == IF "timestamp" \in Columns(df) THEN SortValues(df, "timestamp") ELSE df
        imputed(cells) == IF ~HasMissing(cells) THEN cells
                          ELSE IF "timestamp" \in Columns(df) THEN Interpolate(cells)
                          ELSE FillForwardBackward(cells)
    IN  IF numeric_cols = {} THEN df
        ELSE IF \A c \in numeric_cols : ~HasMissing(df.data[c]) THEN df
        ELSE [ordered EXCEPT
                 !.data = [c \in Columns(df) |->
                             IF c \in numeric_cols THEN FillZero(imputed(ordered.data[c]))
                             ELSE ordered.data[c]]]

\* values.quantile(num/den), times den
QuantileTimes(sorted, num, den) ==
    LET n == Len(sorted)
        pos == num * (n - 1)
        k == pos \div den
        r == pos % den
        lo == sorted[k + 1]
        hi == sorted[Min2(k + 1, n - 1) + 1]
    IN  den * lo + r * (hi - lo)

RECURSIVE GcdSeq(_)
GcdSeq(s) == IF s = <<>> THEN 0 ELSE Gcd(Head(s), GcdSeq(Tail(s)))

\* The values moved to start at zero and divided by their common step, which
\* leaves the z-score of a value as it is; a column of more than ZSteps
\* steps is then rounded to ZSteps steps.
ZSteps == 1000

Reduced(sorted, values) ==
    LET shifted == [i \in DOMAIN values |-> values[i] - sorted[1]]
        g == GcdSeq(shifted)
        top == (sorted[Len(sorted)] - sorted[1]) \div g
    IN  [i \in DOMAIN values |->
            IF g = 0 THEN 0
            ELSE IF top <= ZSteps THEN shifted[i] \div g
            ELSE DivRound(shifted[i] \div g, (top + ZSteps - 1) \div ZSteps)]

MinOutlierValues == 10

\* The treatment of one numeric column by _handle_outliers
HandleColumnOutliers(cells) ==
    LET values == Values(cells)
        n == Len(values)
        sorted == Sorted(values)
        Q1 == Quantile4(sorted, 1)
        Q3 == Quantile4(sorted, 3)
        reduced == Reduced(sorted, values)
        z_values == {values[i] : i \in {j \in DOMAIN values :
                        ZAnomaly(reduced[j], n, SumSeq(reduced), SumSq(reduced))}}
        outlier_mask == {i \in DOMAIN cells :
                            /\ ~IsMissing(cells[i])
                            /\ (IqrAnomaly(cells[i].v, Q1, Q3) \/ cells[i].v \in z_values)}
        lower_cap == QuantileTimes(sorted, 1, 20)
        upper_cap == QuantileTimes(sorted, 19, 20)
        clip(cell) == IF IsMissing(cell) THEN cell
                      ELSE IF 20 * cell.v < lower_cap THEN Num(DivRound(lower_cap, 20))
                      ELSE IF 20 * cell.v > upper_cap THEN Num(DivRound(upper_cap, 20))
                      ELSE cell
        median_val == Num(DivRound(Quantile4(sorted, 2), 4))
    IN  IF n < MinOutlierValues \/ outlier_mask = {} THEN cells
        ELSE IF 10 * Cardinality(outlier_mask) > Len(cells)
             THEN [i \in DOMAIN cells |-> clip(cells[i])]
             ELSE [i \in DOMAIN cells |-> IF i \in outlier_mask THEN median_val ELSE cells[i]]

\* _handle_outliers
HandleOutliers(df) ==
    [df EXCEPT !.data = [c \in Columns(df) |->
                            IF c \in NumericCols(df) THEN HandleColumnOutliers(df.data[c])
                            ELSE df.data[c]]]

\* round(): the nearest integer to num / den (den > 0), a half to the even one
RoundHalfEven(num, den) ==
    LET q == num \div den
        r == num % den
    IN  IF 2 * r < den THEN q
        ELSE IF 2 * r > den THEN q + 1
        ELSE IF q % 2 = 0 THEN q ELSE q + 1

\* The breakpoint tiers (bp_lo, bp_hi, aqi_lo, aqi_hi), concentrations in thousandths
Pm25Breakpoints ==
    << <<0, 12000, 0, 50>>, <<12100, 35400, 51, 100>>, <<35500, 55400, 101, 150>>,
       <<55500, 150400, 151, 200>>, <<150500, 250400, 201, 300>>,
       <<250500, 350400, 301, 400>> >>

Pm10Breakpoints ==
    << <<0, 54000, 0, 50>>, <<55000, 154000, 51, 100>>, <<155000, 254000, 101, 150>>,
       <<255000, 354000, 151, 200>>, <<355000, 424000, 201, 300>>,
       <<425000, 504000, 301, 400>> >>

Hazardous == 500

\* pm25_to_aqi / pm10_to_aqi over a breakpoint table: the first tier that
\* holds the concentration gives the rounded interpolation, no tier gives 500.
AqiOf(breakpoints, c) ==
    LET holding == {k \in DOMAIN breakpoints :
                       breakpoints[k][1] <= c /\ c <= breakpoints[k][2]}
        first == CHOOSE k \in holding : \A j \in holding : k <= j
        bp == breakpoints[first]
    IN  IF holding = {} THEN Hazardous
        ELSE RoundHalfEven((bp[4] - bp[3]) * (c - bp[1]) + bp[3] * (bp[2] - bp[1]),
                           bp[2] - bp[1])

\* _calculate_aqi_pm25 and _calculate_aqi_pm10 on one cell, the index in thousandths
CalculateAqiPm25(cell) ==
    IF IsMissing(cell) THEN Missing ELSE Num(1000 * AqiOf(Pm25Breakpoints, cell.v))

CalculateAqiPm10(cell) ==
    IF IsMissing(cell) THEN Missing ELSE Num(1000 * AqiOf(Pm10Breakpoints, cell.v))

\* 1000 * sin of the multiples of 15 degrees up to 90
SineTable == <<0, 259, 500, 707, 866, 966, 1000>>

\* 1000 * sin(d / 1000 degrees), on the straight line between the entries
\* of the table around the angle
SinMilli(d) ==
    LET a == d % 360000
        half == a % 180000
        up == IF half <= 90000 THEN half ELSE 180000 - half
        k == up \div 15000
        r == up % 15000
        lo == SineTable[k + 1]
        hi == SineTable[Min2(k + 1, 6) + 1]
        s == lo + DivRound((hi - lo) * r, 15000)
    IN  IF a < 180000 THEN s ELSE 0 - s

CosMilli(d) == SinMilli(d + 90000)

\* df[name] = cells, a numeric column
WithColumn(df, name, cells) ==
    [df EXCEPT !.dtype = [c \in Columns(df) \cup {name} |->
                             IF c = name THEN "number" ELSE df.dtype[c]],
               !.data = [c \in Columns(df) \cup {name} |->
                            IF c = name THEN cells ELSE df.data[c]]]

\* The arithmetic of a cell: a missing operand gives a missing result
Lift1(a, f(_)) == IF IsMissing(a) THEN Missing ELSE Num(f(a.v))

\* lines 339-349: the features of the timestamp; .dt raises on a column
\* that holds no datetimes
TimeFeatures(df) ==
    LET ts == df.data["timestamp"]
        rows == 1 .. df.n_rows
        hour == [i \in rows |-> Lift1(ts[i], LAMBDA h : 1000 * (h % 24))]
        day_of_week == [i \in rows |-> Lift1(ts[i], LAMBDA h : 1000 * ((h \div 24) % 7))]
        month == [i \in rows |-> Lift1(ts[i], LAMBDA h : 1000)]
        is_weekend == [i \in rows |->
                          IF ~IsMissing(ts[i]) /\ (ts[i].v \div 24) % 7 \in {5, 6}
                          THEN Num(1000) ELSE Num(0)]
        hour_sin == [i \in rows |-> Lift1(ts[i], LAMBDA h : SinMilli(15000 * (h % 24)))]
        hour_cos == [i \in rows |-> Lift1(ts[i], LAMBDA h : CosMilli(15000 * (h % 24)))]
        month_sin == [i \in rows |-> Lift1(ts[i], LAMBDA h : SinMilli(30000))]
        month_cos == [i \in rows |-> Lift1(ts[i], LAMBDA h : CosMilli(30000))]
    IN  IF "timestamp" \notin Columns(df) THEN Returns(df)
        ELSE IF df.dtype["timestamp"] # "datetime" THEN Raises(df)
        ELSE Returns(
                WithColumn(WithColumn(WithColumn(WithColumn(WithColumn(WithColumn(
                WithColumn(WithColumn(df, "hour", hour), "day_of_week", day_of_week),
                "month", month), "is_weekend", is_weekend), "hour_sin", hour_sin),
                "hour_cos", hour_cos), "month_sin", month_sin), "month_cos", month_cos))

\* The value of a derived feature from the values x and y of its two columns
Formula(name, x, y) ==
    CASE name = "heat_index" -> x + DivRound(33 * y, 100) - 700
      [] name = "wind_u" -> 0 - DivRound(x * SinMilli(y), 1000)
      [] name = "wind_v" -> 0 - DivRound(x * CosMilli(y), 1000)
      [] name = "density_altitude" -> x - DivRound(10 * (y - 1013250), 36)
      [] name = "aqi_pm25" -> 1000 * AqiOf(Pm25Breakpoints, x)
      [] name = "aqi_pm10" -> 1000 * AqiOf(Pm10Breakpoints, x)
      [] name = "wave_energy" -> DivRound(DivRound(x * x, 1000) * y, 1000)

\* One derived feature of the columns a and b, after the steps before it:
\* a step that raised ends the stage, arithmetic on a column of objects
\* raises, a missing operand gives a missing value.
Derived(comp, a, b, name) ==
    IF comp.exc \/ ~({a, b} \subseteq Columns(comp.val)) THEN comp
    ELSE IF comp.val.dtype[a] # "number" \/ comp.val.dtype[b] # "number"
    THEN Raises(comp.val)
    ELSE Returns(WithColumn(comp.val, name,
             [i \in 1 .. comp.val.n_rows |->
                 IF IsMissing(comp.val.data[a][i]) \/ IsMissing(comp.val.data[b][i])
                 THEN Missing
                 ELSE Num(Formula(name, comp.val.data[a][i].v, comp.val.data[b][i].v))]))

\* _engineer_features: the columns added before a step raises stay in the table
EngineerFeatures(df) ==
    Derived(Derived(Derived(Derived(Derived(Derived(Derived(TimeFeatures(df),
        "temperature", "humidity", "heat_index"),
        "wind_speed", "wind_direction", "wind_u"),
        "wind_speed", "wind_direction", "wind_v"),
        "temperature", "pressure", "density_altitude"),
        "pm25", "pm25", "aqi_pm25"),
        "pm10", "pm10", "aqi_pm10"),
        "wave_height", "wind_speed", "wave_energy").val

\* RobustScaler().fit_transform on one column: (x - median) / (Q3 - Q1) over
\* the values that are present, a zero range counting as 1; a missing cell
\* stays missing.
RobustScaled(cells) ==
    LET sorted == Sorted(Values(cells))
        center == Quantile4(sorted, 2)
        scale == Quantile4(sorted, 3) - Quantile4(sorted, 1)
        transform(v) == IF scale = 0 THEN DivRound(4 * v - center, 4)
                        ELSE MilliQuotient(4 * v - center, scale)
    IN  [i \in DOMAIN cells |-> Lift1(cells[i], transform)]

\* _scale_features with the 'robust_scaler' method
ScaleFeatures(df) ==
    [df EXCEPT !.data = [c \in Columns(df) |->
                            IF c \in NumericCols(df) THEN RobustScaled(df.data[c])
                            ELSE df.data[c]]]

\* One stage of the pipeline, or the table it was given when the stage raises
Stage(df, name, failing, stage(_)) == IF name \in failing THEN df ELSE stage(df)

\* The five stages in their order; no target variable is given, so no
\* feature selection follows.
Pipeline(df, failing) ==
    LET cleaned == Stage(df, "clean_and_standardize", failing, CleanAndStandardize)
        filled == Stage(cleaned, "handle_missing_values", failing, HandleMissingValues)
        trimmed == Stage(filled, "handle_outliers", failing, HandleOutliers)
        engineered == Stage(trimmed, "engineer_features", failing, EngineerFeatures)
        scaled == Stage(engineered, "scale_features", failing, ScaleFeatures)
    IN  [scaled EXCEPT !.applied = AppliedStages(failing)]

\* prepare_features(raw_data): raw_data is a list of records, or a value of
\* which pd.DataFrame(raw_data) raises.
PreprocessFeatures(raw, failing) ==
    LET prepared(df) == IF df.empty THEN Returns([res |-> EmptyTable])
                        ELSE Returns([res |-> Pipeline(df, failing)])
        body ==
            IF raw.is_list /\ raw.rows = <<>> THEN Returns([res |-> EmptyTable])
            ELSE IF ~raw.is_list THEN Raises([res |-> EmptyTable])
            ELSE prepared(TableOf(raw.rows))
    IN  Catch(body, EmptyTable)

\* df.to_dict('records')
Records(df) == [i \in 1 .. df.n_rows |-> [c \in Columns(df) |-> df.data[c][i]]]

DP_PrepareFeatures ==
    LET ends(comp) == /\ feature_table' = comp.val.res
                      /\ outcome' = IF comp.exc THEN "raised" ELSE "returned"
    IN  /\ component = "preprocessor"
        /\ ends(PreprocessFeatures(raw_data, failing_stages))
        /\ last_call' = [op |-> "prepare_features", historical |-> FALSE,
                         is_trained_before |-> FALSE, initialized |-> FALSE]
        /\ UNCHANGED <<component, anomalyVars, threatVars, predictorVars, raw_data,
                       failing_stages, reapplied_table, functionVars, concurrentVars>>

\* prepare_features on the records of the table the last call returned
DP_PrepareFeaturesAgain ==
    LET ends(comp) == /\ reapplied_table' = comp.val.res
                      /\ outcome' = IF comp.exc THEN "raised" ELSE "returned"
    IN  /\ component = "preprocessor"
        /\ last_call.op = "prepare_features"
        /\ ends(PreprocessFeatures([is_list |-> TRUE, rows |-> Records(feature_table)],
                                   failing_stages))
        /\ last_call' = [op |-> "prepare_features_again", historical |-> FALSE,
                         is_trained_before |-> FALSE, initialized |-> FALSE]
        /\ UNCHANGED <<component, anomalyVars, threatVars, predictorVars, raw_data,
                       failing_stages, feature_table, functionVars, concurrentVars>>

NoTable == [empty |-> TRUE, n_rows |-> 0, applied |-> {"none"}, dtype |-> <<>>, data |-> <<>>]

IdlePreprocessor ==
    /\ raw_data = [is_list |-> TRUE, rows |-> <<>>]
    /\ failing_stages = {}
    /\ feature_table = NoTable
    /\ reapplied_table = NoTable

-----------------------------------------------------------------------------
(* Pure functions applied on their own *)

NoArgs == [fn |-> "none"]
NoValue == 0 - 1

IdleFunctions ==
    /\ call_args = NoArgs
    /\ call_value = NoValue

-----------------------------------------------------------------------------
(* ThreatDetectionAI._calculate_severity (services/ai_detection.py) with the *)
(* severity threshold tables of config.THREAT_TYPES.  Feature values and    *)
(* thresholds are in hundredths, a confidence in percent.                   *)

\* A dictionary key: the integer n, or the string str(n).
IntKey(n) == <<"int", n>>
StrKey(n) == <<"str", n>>

\* THREAT_TYPES[threat_type]['severity_thresholds'], by level
SeverityThresholds(threat_type) ==
    CASE threat_type = "storm" ->
            [l \in 1 .. 5 |->
                [wind_speed |-> <<2500, 4000, 6000, 8500, 12000>>[l],
                 pressure |-> <<101000, 100500, 99500, 98000, 96000>>[l]]]
      [] threat_type = "pollution" ->
            [l \in 1 .. 5 |->
                [pm2_5 |-> <<1500, 3500, 5500, 12500, 25000>>[l],
                 pm10 |-> <<2500, 5000, 7500, 15000, 30000>>[l]]]
      [] threat_type = "erosion" ->
            [l \in 1 .. 5 |->
                [wave_height |-> <<150, 250, 400, 600, 800>>[l],
                 wind_speed |-> <<2000, 3000, 4500, 6500, 8500>>[l]]]
      [] threat_type = "algal_bloom" ->
            [l \in 1 .. 5 |->
                [chlorophyll |-> <<1000, 2500, 5000, 10000, 20000>>[l],
                 temperature |-> <<2000, 2400, 2800, 3200, 3500>>[l]]]
      [] threat_type = "illegal_dumping" ->
            [l \in 1 .. 5 |-> [anomaly_score |-> <<30, 50, 70, 85, 95>>[l]]]

\* The keys of a severity threshold table: the integers 1..5.
SeverityThresholdKeys(threat_type) == {IntKey(l) : l \in DOMAIN SeverityThresholds(threat_type)}

\* The inner loop: no parameter the features hold lies below its threshold.
MeetsThreshold(level_thresholds, features) ==
    \A param \in DOMAIN level_thresholds :
        param \in DOMAIN features => features[param] >= level_thresholds[param]

\* min(5, max(1, int(confidence * 5)))
BaseSeverity(confidence) == Min2(5, Max2(1, (confidence * 5) \div 100))

\* The lookup str(severity_level) in thresholds
LevelKey(severity_level) == StrKey(severity_level)

\* _calculate_severity(threat_type, features, confidence)
ThreatCalculateSeverity(threat_type, features, confidence) ==
    LET thresholds == SeverityThresholds(threat_type)
        met == {l \in 1 .. 5 : /\ LevelKey(l) \in SeverityThresholdKeys(threat_type)
                               /\ MeetsThreshold(thresholds[l], features)}
        max_severity == IF met = {} THEN 1 ELSE CHOOSE l \in met : \A k \in met : l >= k
    IN  Max2(BaseSeverity(confidence), max_severity)

\* _calculate_severity applied to the arguments of the run
AI_CalculateSeverity ==
    /\ component = "ai_detection"
    /\ call_args.fn = "_calculate_severity"
    /\ call_value' = ThreatCalculateSeverity(call_args.threat_type, call_args.features,
                                            call_args.confidence)
    /\ outcome' = "returned"
    /\ UNCHANGED <<component, anomalyVars, threatVars, predictorVars, preprocessorVars,
                   call_args, concurrentVars, last_call>>

-----------------------------------------------------------------------------
(* Calls in flight on the module-level objects.  anomaly_detector and        *)
(* threat_predictor are created once per process (anomaly_detection.py:644, *)
(* prediction_models.py:629) and every request handler calls them, each     *)
(* through an event loop of its own (deployment/vercel/api/threats.py); the *)
(* coroutines take no lock and never suspend, so two calls overlap exactly  *)
(* when their handlers run on two threads, and then the statements of one   *)
(* interleave with those of the other.  A step of this section is one       *)
(* statement (or one loop) of a call that reads or writes the model state   *)
(* of one key: the detector's, or the predictor's for one                   *)
(* (parameter, forecast_hour).  A part of the model state is held as the    *)
(* training that wrote it last (0: initialize_models).                      *)

MaxCallers == 2
Callers == 1 .. MaxCallers

ModelStates == {"anomaly_detector", "threat_predictor"}

\* The state initialize_models leaves: nothing fitted, is_trained False, no
\* baseline statistics (detector), no model_performance (predictor).
InitializedState ==
    [scaler |-> 0, fitted |-> 0, models |-> 0, is_trained |-> FALSE, stats |-> 0]

Unread == 0 - 1
NothingSeen ==
    [is_trained |-> FALSE, scaler |-> Unread, fitted |-> Unread, models |-> Unread,
     stats |-> Unread]

NotCalled ==
    [op |-> "none", historical |-> FALSE, fits |-> FALSE, pc |-> "idle",
     trained |-> FALSE, seen |-> NothingSeen]

IdleConcurrent ==
    /\ calls = <<>>
    /\ model_state = <<>>

-----------------------------------------------------------------------------
(* Explored inputs of the anomaly detector *)

\* A reading in which at most one parameter deviates from its nominal value.
ReadingRows ==
    {[pm25 |-> a, pm10 |-> b] : a, b \in {0, Unit, 2 * Unit}} \cap
    {r \in [{"pm25", "pm10"} -> 0 .. 2 * Unit] : r.pm25 = Unit \/ r.pm10 = Unit}

\* Readings with missing (NaN) or non-numeric (Str) cells.
DegenerateRows == [{"pm25", "pm10"} -> {Unit, NaN, Str}]

\* A long steady batch with one spike in pm25: the 3-sigma rule needs 11 rows.
SpikeBatches ==
    {[i \in 1 .. 11 |-> [pm25 |-> IF i = k THEN v ELSE Unit, pm10 |-> Unit]] :
        k \in {1, 6, 11}, v \in {0, 2 * Unit}}

StatBatchesUpTo(rows) ==
    UNION {[1 .. n -> ReadingRows] : n \in 0 .. rows}
    \cup UNION {[1 .. n -> DegenerateRows] : n \in 1 .. MaxDegenerateRows}
    \cup SpikeBatches

StatBatches == StatBatchesUpTo(MaxRows)

NoResult ==
    [is_anomaly |-> FALSE, anomaly_score |-> 0, severity |-> 1, confidence |-> 0,
     affected_parameters |-> <<>>, detection_method |-> "",
     baseline_comparison |-> {}, error |-> ""]

InitAnomalyStat ==
    /\ component = "anomaly"
    /\ current_data \in StatBatches
    /\ historical_data = <<>>
    /\ fit_ok = [m \in Detectors |-> TRUE]
    /\ predict_out = [m \in Detectors |-> 0]
    /\ detector = ConstructedDetector
    /\ anomaly_result = NoResult
    /\ IdleThreat
    /\ IdlePredictor
    /\ IdlePreprocessor
    /\ IdleFunctions
    /\ IdleConcurrent
    /\ last_call = NoCall
    /\ outcome = "idle"

SpecAnomalyStat == InitAnomalyStat /\ [][NextAnomaly]_vars

\* Readings of the ensemble path: with the baseline (100, 110) the value 125
\* is beyond two standard deviations but inside 120% of the maximum; with the
\* baseline (0, 100) it is outside 120% of the maximum only.
EnsembleValues == {0, 100, 110, 125}

EnsembleRows == [{"temperature"} -> EnsembleValues]

TwoColumnTable == <<[temperature |-> 100, pressure |-> 100],
                    [temperature |-> 110, pressure |-> 125]>>

\* n rows of steady readings, then the latest reading v.
SteadyThen(n, v) == [i \in 1 .. n |-> [temperature |-> IF i = n THEN v ELSE 100]]

HistoricalBatches ==
    UNION {[1 .. n -> EnsembleRows] : n \in 0 .. MaxEnsembleRows} \cup {TwoColumnTable}

CurrentBatches ==
    {SteadyThen(n, v) : n \in 1 .. MaxEnsembleRows, v \in EnsembleValues}
    \cup {TwoColumnTable}

\* The library's behaviour on the tables of this run: which detectors accept
\* the historical data, and how many current rows each fitted detector flags.
UniformEnvironments ==
    {[fit |-> [m \in Detectors |-> f], out |-> [m \in Detectors |-> o]] :
        f \in BOOLEAN, o \in {0, 1}}

EnsembleInputs ==
    /\ \/ /\ historical_data \in HistoricalBatches
          /\ current_data \in CurrentBatches
          /\ \E e \in UniformEnvironments : fit_ok = e.fit /\ predict_out = e.out
       \/ /\ historical_data = <<[temperature |-> 100], [temperature |-> 110]>>
          /\ current_data = SteadyThen(MaxEnsembleRows, 125)
          /\ fit_ok \in [Detectors -> BOOLEAN]
          /\ predict_out \in [Detectors -> {NoOutput} \cup 0 .. MaxEnsembleRows]

InitAnomalyEns ==
    /\ component = "anomaly"
    /\ EnsembleInputs
    /\ detector = ConstructedDetector
    /\ anomaly_result = NoResult
    /\ IdleThreat
    /\ IdlePredictor
    /\ IdlePreprocessor
    /\ IdleFunctions
    /\ IdleConcurrent
    /\ last_call = NoCall
    /\ outcome = "idle"

SpecAnomalyEns == InitAnomalyEns /\ [][NextAnomaly]_vars

-----------------------------------------------------------------------------
(* Explored inputs of the threat detection engine *)

\* Latest readings on both sides of every bracket of the rules.
WindSpeeds == {0, 39, 40, 62, 63, 88, 89, 118, 119, 130}

WeatherRows ==
    [wind_speed : WindSpeeds \cup {NaN, Str},
     pressure : {970, 979, 980, 1013, NaN, Str}]

AirRows == [pm25 : {25, 26, 35, 36, 55, 56, 75, 76}, pm10 : {150, 151, Str}]

OceanRows == [water_temperature : {25, 26, 29}, visibility : {1, 4, 5},
              salinity : {29, 30, 39}]

CoastalRows == [wave_height : {0, 5, 10, 30}, wind_speed : {0, 25, 50, 100, 130}]

\* Tables in which no category, or a category without its pressure column,
\* finds its features.
SparseRows == {[wind_speed |-> 130]} \cup [wind_speed : {40, 130}, temperature : {20}]

LatestRows == WeatherRows \cup AirRows \cup OceanRows \cup CoastalRows \cup SparseRows

\* Earlier rows of a batch: the same columns, all low or all high.
EarlierRows(row) == {[c \in DOMAIN row |-> v] : v \in {0, 200}}

ThreatBatches ==
    {<<>>} \cup
    UNION {{earlier \o <<row>> :
               earlier \in UNION {[1 .. n -> EarlierRows(row)] : n \in 0 .. MaxThreatRows - 1}} :
           row \in LatestRows}

RequestNames == {"storm", "erosion", "tsunami"}

Requests ==
    {NoFilter, [given |-> TRUE, iterable |-> FALSE, list |-> <<>>]} \cup
    {[given |-> TRUE, iterable |-> TRUE, list |-> l] :
        l \in UNION {[1 .. n -> RequestNames] : n \in 0 .. MaxRequested}}

IdleAnomaly ==
    /\ current_data = <<>>
    /\ historical_data = <<>>
    /\ fit_ok = [m \in Detectors |-> TRUE]
    /\ predict_out = [m \in Detectors |-> 0]
    /\ detector = ConstructedDetector
    /\ anomaly_result = NoResult

ThreatInputs ==
    /\ environmental_data \in ThreatBatches
    /\ detection_models \in Requests
    /\ engine = ConstructedEngine
    /\ threat_results = <<>>

InitThreat ==
    /\ component = "threat"
    /\ ThreatInputs
    /\ IdleAnomaly
    /\ IdlePredictor
    /\ IdlePreprocessor
    /\ IdleFunctions
    /\ IdleConcurrent
    /\ last_call = NoCall
    /\ outcome = "idle"

SpecThreat == InitThreat /\ [][NextThreat]_vars

-----------------------------------------------------------------------------
(* Explored applications of _calculate_severity *)

\* The confidences with which _detect_threat_type reports a threat (above
\* 0.5), on both sides of the steps of the confidence-derived severity.
ReportedConfidences == {51, 59, 60, 79, 80, 99, 100}

\* Features on both sides of the table's thresholds; a feature may be absent.
SeverityArguments ==
    {[fn |-> "_calculate_severity", threat_type |-> "storm",
      features |-> [wind_speed |-> w, pressure |-> p], confidence |-> c] :
        w \in {0, 2500, 3999, 4000, 8500, 12000, 13000},
        p \in {95000, 96000, 99500, 101300}, c \in ReportedConfidences}
    \cup
    {[fn |-> "_calculate_severity", threat_type |-> "erosion",
      features |-> [wave_height |-> h, wind_speed |-> w], confidence |-> c] :
        h \in {0, 149, 150, 400, 800}, w \in {0, 9000}, c \in ReportedConfidences}
    \cup
    {[fn |-> "_calculate_severity", threat_type |-> "illegal_dumping",
      features |-> [chemical_anomaly |-> a], confidence |-> c] :
        a \in {0, 100}, c \in ReportedConfidences}

InitSeverity ==
    /\ component = "ai_detection"
    /\ call_args \in SeverityArguments
    /\ call_value = NoValue
    /\ IdleConcurrent
    /\ IdleAnomaly
    /\ IdleThreat
    /\ IdlePredictor
    /\ IdlePreprocessor
    /\ last_call = NoCall
    /\ outcome = "idle"

SpecSeverity == InitSeverity /\ [][AI_CalculateSeverity]_vars

-----------------------------------------------------------------------------
(* Calls in flight: the steps of a call *)

\* The object a call works on.
StateOf(c) ==
    IF calls[c].op = "detect_anomalies" THEN "anomaly_detector" ELSE "threat_predictor"

TrainingSteps == {"fit_scaler", "fit_models", "publish", "set_trained", "store_stats"}

\* A step of caller c from position pc: its call record and the model state
\* of its object change as given, nothing else does.
Step(c, pc, call, state) ==
    /\ component = "concurrent"
    /\ calls[c].pc = pc
    /\ calls' = [calls EXCEPT ![c] = call]
    /\ model_state' = [model_state EXCEPT ![StateOf(c)] = state]
    /\ UNCHANGED <<component, anomalyVars, threatVars, predictorVars, preprocessorVars,
                   functionVars, last_call, outcome>>

\* A handler calls detect_anomalies(current, historical or None) or
\* predict_threats(history, location); fits tells whether any model's fit
\* will accept its training data.
CC_Call(c, op, historical, fits) ==
    /\ component = "concurrent"
    /\ calls[c].pc = "idle"
    /\ calls' = [calls EXCEPT ![c] = [NotCalled EXCEPT !.op = op, !.historical = historical,
                                                        !.fits = fits, !.pc = "called"]]
    /\ UNCHANGED <<component, anomalyVars, threatVars, predictorVars, preprocessorVars,
                   functionVars, model_state, last_call, outcome>>

\* detect_anomalies, "if historical_data is None and not self.is_trained":
\* the statistical path, which reads no model state; otherwise on to
\* _ml_anomaly_detection.  predict_threats goes on to _predict_parameter.
CC_Enter(c) ==
    LET state == model_state[StateOf(c)]
        call == calls[c]
    IN  Step(c, "called",
             IF call.op = "detect_anomalies" /\ ~call.historical /\ ~state.is_trained
             THEN [call EXCEPT !.pc = "done"]
             ELSE [call EXCEPT !.pc = "check"],
             state)

\* "if historical_data and not self.is_trained: await self._train_..." and
\* "if not self.is_trained.get(parameter, {}).get(forecast_hour, False)":
\* the test and the training it leads to are separate steps.
CC_CheckTrained(c) ==
    LET state == model_state[StateOf(c)]
        call == calls[c]
        untrained == IF call.op = "detect_anomalies"
                     THEN call.historical /\ ~state.is_trained
                     ELSE ~state.is_trained
    IN  Step(c, "check",
             IF untrained THEN [call EXCEPT !.pc = "fit_scaler", !.trained = TRUE]
             ELSE [call EXCEPT !.pc = IF call.op = "detect_anomalies" THEN "transform"
                                      ELSE "read_models",
                               !.seen.is_trained = state.is_trained],
             state)

\* self.scalers['robust'].fit_transform(X_hist) / scaler.fit_transform(X_train):
\* the scaler in use is fitted in place.
CC_FitScaler(c) ==
    Step(c, "fit_scaler", [calls[c] EXCEPT !.pc = "fit_models"],
         [model_state[StateOf(c)] EXCEPT !.scaler = c])

\* The loop over self.models...items(): model.fit on the objects in use.  With
\* no model fitted the training returns False and publishes nothing.
CC_FitModels(c) ==
    LET call == calls[c]
    IN  Step(c, "fit_models",
             [call EXCEPT !.pc = IF call.fits THEN "publish"
                                 ELSE IF call.op = "detect_anomalies" THEN "transform"
                                 ELSE "read_models"],
             IF call.fits THEN [model_state[StateOf(c)] EXCEPT !.fitted = c]
             ELSE model_state[StateOf(c)])

\* self.models = trained_models / self.models[parameter][forecast_hour] = ...
CC_PublishModels(c) ==
    Step(c, "publish", [calls[c] EXCEPT !.pc = "set_trained"],
         [model_state[StateOf(c)] EXCEPT !.models = c])

\* self.is_trained = True / self.is_trained[parameter][forecast_hour] = True
CC_SetTrained(c) ==
    Step(c, "set_trained", [calls[c] EXCEPT !.pc = "store_stats"],
         [model_state[StateOf(c)] EXCEPT !.is_trained = TRUE])

\* self.baseline_stats = {...} / self.model_performance[parameter][...] = ...;
\* the training returns and the call goes on to its own detection.
CC_StoreStats(c) ==
    Step(c, "store_stats",
         [calls[c] EXCEPT !.pc = IF calls[c].op = "detect_anomalies" THEN "transform"
                                 ELSE "read_models"],
         [model_state[StateOf(c)] EXCEPT !.stats = c])

\* X_scaled = self.scalers['robust'].transform(X_current)
CC_Transform(c) ==
    LET state == model_state[StateOf(c)]
    IN  Step(c, "transform",
             [calls[c] EXCEPT !.pc = "read_models", !.seen.scaler = state.scaler],
             state)

\* The loop over self.models.items() with model.predict, and
\* models = self.models.get(parameter, {}).get(forecast_hour, {}) with
\* model.predict(latest_features).
CC_ReadModels(c) ==
    LET state == model_state[StateOf(c)]
    IN  Step(c, "read_models",
             [calls[c] EXCEPT !.pc = "read_stats", !.seen.models = state.models,
                              !.seen.fitted = state.fitted],
             state)

\* _identify_affected_parameters reads self.baseline_stats;
\* _calculate_performance_metrics reads self.model_performance.
CC_ReadStats(c) ==
    LET state == model_state[StateOf(c)]
    IN  Step(c, "read_stats",
             [calls[c] EXCEPT !.pc = "done", !.seen.stats = state.stats],
             state)

NextConcurrent ==
    \E c \in Callers :
        \/ \E op \in {"detect_anomalies", "predict_threats"}, historical, fits \in BOOLEAN :
               CC_Call(c, op, historical, fits)
        \/ CC_Enter(c)
        \/ CC_CheckTrained(c)
        \/ CC_FitScaler(c)
        \/ CC_FitModels(c)
        \/ CC_PublishModels(c)
        \/ CC_SetTrained(c)
        \/ CC_StoreStats(c)
        \/ CC_Transform(c)
        \/ CC_ReadModels(c)
        \/ CC_ReadStats(c)

InitConcurrent ==
    /\ component = "concurrent"
    /\ calls = [c \in Callers |-> NotCalled]
    /\ model_state = [t \in ModelStates |-> InitializedState]
    /\ IdleAnomaly
    /\ IdleThreat
    /\ IdlePredictor
    /\ IdlePreprocessor
    /\ IdleFunctions
    /\ last_call = NoCall
    /\ outcome = "idle"

SpecConcurrent == InitConcurrent /\ [][NextConcurrent]_vars

-----------------------------------------------------------------------------
(* All four components: each run exercises one of them *)

\* n readings of wind_speed on a line that ends at last and rises by step per
\* reading (falls, for a negative step).
Ramp(n, last, step) == [i \in 1 .. n |-> [wind_speed |-> last - step * (n - i)]]

\* The shortest sufficient history in several shapes: rising by 1%, steady at
\* 0, falling, falling towards 0, a second parameter, a non-numeric first
\* reading, and no prediction parameter at all.
ShapedHistories ==
    {Ramp(MinDataPoints, 1000, 10), Ramp(MinDataPoints, 0, 0),
     Ramp(MinDataPoints, 1000, 0 - 12), Ramp(MinDataPoints, 10, 0 - 12),
     [i \in 1 .. MinDataPoints |-> [wind_speed |-> 40, pm25 |-> IF i % 7 = 0 THEN NaN ELSE 30]],
     [i \in 1 .. MinDataPoints |-> [wind_speed |-> IF i = 1 THEN Str ELSE 40]],
     [i \in 1 .. MinDataPoints |-> [note |-> Str]]}

ForecastHistories ==
    {Ramp(n, 1000, 12) :
        n \in {0, 1, MinDataPoints - 1} \cup (MinDataPoints .. MinDataPoints + MaxExtraRows)}
    \cup ShapedHistories

HoursArguments ==
    {DefaultHours, [given |-> TRUE, iterable |-> FALSE, list |-> <<>>]} \cup
    {[given |-> TRUE, iterable |-> TRUE, list |-> l] :
        l \in {<<3>>, <<48>>, <<4, 2>>, <<2, 30>>, <<0 - 2>>, <<2, 0 - 24>>}}

\* A location {'lat': ..., 'lng': ...}, and locations that are none: a key is
\* missing, a coordinate is no number.
LatLng == [lat |-> 21, lng |-> 72]
MalformedLocations == {[lat |-> 21], [lat |-> Str, lng |-> 72]}

HoursList(l) == [given |-> TRUE, iterable |-> TRUE, list |-> l]

\* The explored calls: every length of history with the default horizons,
\* every forecast_hours argument and a raising parameter on the shortest
\* sufficient history, every shape of history with two horizons in
\* descending order.
PredictorCalls ==
    {[history |-> h, location |-> l, hours |-> DefaultHours, raises |-> FALSE] :
        h \in ForecastHistories, l \in {LatLng}}
    \cup {[history |-> Ramp(MinDataPoints, 1000, 12), location |-> LatLng, hours |-> a,
           raises |-> FALSE] : a \in HoursArguments}
    \cup {[history |-> Ramp(MinDataPoints, 1000, 12), location |-> LatLng,
           hours |-> DefaultHours, raises |-> TRUE]}
    \cup {[history |-> h, location |-> LatLng, hours |-> HoursList(<<4, 2>>),
           raises |-> FALSE] : h \in ShapedHistories}
    \cup {[history |-> Ramp(MinDataPoints, 1000, 12), location |-> l,
           hours |-> HoursList(<<4, 2>>), raises |-> FALSE] : l \in MalformedLocations}

\* predict_threats(historical_data, location, forecast_hours)
TP_PredictThreats ==
    \E call \in PredictorCalls :
        PredictThreatsCall(call.history, call.location, call.hours, call.raises)

NextPredictor == TP_InitializeModels \/ TP_PredictThreats

\* The library's behaviour in a run: the regressors whose fit succeeds and
\* the value each fitted regressor predicts.
RegressorEnvironments ==
    {[fit |-> [m \in Estimators |-> m \in F], out |-> o] :
        F \in {Estimators, {}, {"linear", "ridge"}},
        o \in {[m \in Estimators |-> NoOutput],
               [m \in Estimators |-> IF m = "linear" THEN 1000 ELSE 1100]}}

PredictorInputs ==
    /\ forecast_history = <<>>
    /\ forecast_hours = DefaultHours
    /\ parameter_raises = FALSE
    /\ \E e \in RegressorEnvironments :
           estimator_fit_ok = e.fit /\ estimator_output = e.out
    /\ predictor = ConstructedPredictor
    /\ prediction_result = NoPrediction

InitPredictor ==
    /\ component = "predictor"
    /\ PredictorInputs
    /\ IdleAnomaly
    /\ IdleThreat
    /\ IdlePreprocessor
    /\ IdleFunctions
    /\ IdleConcurrent
    /\ last_call = NoCall
    /\ outcome = "idle"

SpecPredictor == InitPredictor /\ [][NextPredictor]_vars

\* _calculate_aqi_pm25 / _calculate_aqi_pm10 applied to a series of one cell
DP_CalculateAqiPm25 ==
    /\ component = "aqi"
    /\ call_args.fn = "_calculate_aqi_pm25"
    /\ call_value' = CalculateAqiPm25(call_args.cell)
    /\ outcome' = "returned"
    /\ UNCHANGED <<component, anomalyVars, threatVars, predictorVars, preprocessorVars,
                   call_args, concurrentVars, last_call>>

DP_CalculateAqiPm10 ==
    /\ component = "aqi"
    /\ call_args.fn = "_calculate_aqi_pm10"
    /\ call_value' = CalculateAqiPm10(call_args.cell)
    /\ outcome' = "returned"
    /\ UNCHANGED <<component, anomalyVars, threatVars, predictorVars, preprocessorVars,
                   call_args, concurrentVars, last_call>>

\* Concentrations in thousandths: a grid of GridStep over the tiers and just
\* beyond the top one, and the neighbourhood of every breakpoint. (Where the
\* interpolation falls exactly halfway between two integers the float
\* arithmetic of the code decides the rounding; the grid holds no such value.)
GridStep == 2000
MaxGridSteps == 260

Concentrations(breakpoints) ==
    LET top == breakpoints[Len(breakpoints)][2]
    IN  {GridStep * k : k \in 0 .. Min2(MaxGridSteps, top \div GridStep + 2)} \cup
        {c \in {breakpoints[k][j] + d : k \in DOMAIN breakpoints, j \in {1, 2},
                                        d \in {0 - 100, 0 - 50, 0, 50, 100}} : c >= 0}

AqiArguments ==
    {[fn |-> "_calculate_aqi_pm25", cell |-> cell] :
        cell \in {Missing} \cup {Num(c) : c \in Concentrations(Pm25Breakpoints)}} \cup
    {[fn |-> "_calculate_aqi_pm10", cell |-> cell] :
        cell \in {Missing} \cup {Num(c) : c \in Concentrations(Pm10Breakpoints)}}

InitAqi ==
    /\ component = "aqi"
    /\ IdleAnomaly
    /\ IdleThreat
    /\ IdlePredictor
    /\ IdlePreprocessor
    /\ call_args \in AqiArguments
    /\ call_value = NoValue
    /\ IdleConcurrent
    /\ last_call = NoCall
    /\ outcome = "idle"

NextAqi == DP_CalculateAqiPm25 \/ DP_CalculateAqiPm10

SpecAqi == InitAqi /\ [][NextAqi]_vars

\* _assess_threat_severity(parameter, value) applied to one predicted value
TP_AssessThreatSeverity ==
    /\ component = "risk"
    /\ call_args.fn = "_assess_threat_severity"
    /\ call_value' = AssessThreatSeverity(call_args.parameter, call_args.value)
    /\ outcome' = "returned"
    /\ UNCHANGED <<component, anomalyVars, threatVars, predictorVars, preprocessorVars,
                   call_args, concurrentVars, last_call>>

\* Predicted values: every threshold of the parameter, the values one and a
\* half below and above it, and 0 (a parameter without a table gets those of
\* wind_speed).
PredictedValues(parameter) ==
    LET thresholds == IF RiskThresholds(parameter) = <<>> THEN RiskThresholds("wind_speed")
                      ELSE RiskThresholds(parameter)
    IN  {Whole(0)} \cup
        UNION {{Whole(thresholds[i]), Whole(thresholds[i] + 1), Frac(2 * thresholds[i] - 1, 2),
                Frac(2 * thresholds[i] + 1, 2), Whole(thresholds[i] - 1)} :
               i \in DOMAIN thresholds}

RiskArguments ==
    UNION {{[fn |-> "_assess_threat_severity", parameter |-> q, value |-> v] :
               v \in PredictedValues(q)} : q \in PredictionParameters}

InitRisk ==
    /\ component = "risk"
    /\ call_args \in RiskArguments
    /\ call_value = NoValue
    /\ IdleConcurrent
    /\ IdleAnomaly
    /\ IdleThreat
    /\ IdlePredictor
    /\ IdlePreprocessor
    /\ last_call = NoCall
    /\ outcome = "idle"

SpecRisk == InitRisk /\ [][TP_AssessThreatSeverity]_vars

RawInputs ==
    {[is_list |-> FALSE, rows |-> <<>>]} \cup
    {[is_list |-> TRUE, rows |-> [i \in 1 .. n |-> row]] :
        n \in 0 .. MaxRawRows, row \in {<<>>, [pm25 |-> Num(1000 * Unit)]}}

\* Batches of humidity and temperature readings: in range, out of range,
\* missing, not a number
ReadingBatches ==
    {[is_list |-> TRUE, rows |-> rows] :
        rows \in UNION {[1 .. n ->
                            {[humidity |-> h, temperature |-> t] :
                                h \in {Num(50000), Num(150000), Missing},
                                t \in {Num(20000), Text}}] : n \in 1 .. MaxRawRows}}

Rows(columns, n) == [i \in 1 .. n |-> [c \in DOMAIN columns |-> columns[c][i]]]

Series(n, first, step) == [i \in 1 .. n |-> Num(first + (i - 1) * step)]

\* Batches that take the pipeline through its branches
ShapedBatches ==
    {[is_list |-> TRUE, rows |-> rows] : rows \in
        {Rows([pressure |-> Series(3, 1000000, 10000)], 3),
         Rows([humidity |-> Series(2, 150000, 10000),
               temperature |-> Series(2, 20000, 1000)], 2),
         Rows([note |-> <<Missing, Missing>>, temperature |-> Series(2, 20000, 1000)], 2),
         Rows([timestamp |-> <<Time(0)>>, temperature |-> <<Num(20000)>>], 1),
         Rows([timestamp |-> <<Text, Time(30)>>, temperature |-> Series(2, 20000, 1000)], 2),
         Rows([location |-> <<Place, Place>>, temperature |-> Series(2, 20000, 1000)], 2),
         Rows([timestamp |-> <<Time(125), Time(3), Time(50), Time(4)>>,
               temperature |-> <<Num(20000), Missing, Num(22000), Missing>>,
               humidity |-> <<Num(70000), Num(40000), Missing, Missing>>], 4),
         Rows([wave |-> <<Missing, Num(2000), Missing, Num(3000)>>,
               wspd |-> <<Num(10000), Num(12000), Num(8000), Text>>,
               wdir |-> <<Num(90000), Num(210000), Num(400000), Num(45000)>>], 4),
         Rows([Temp |-> Series(3, 18000, 2000), pres |-> Series(3, 1003250, 18000),
               PM25 |-> <<Num(12000), Num(12050), Num(12100)>>,
               pm10 |-> <<Num(54000), Num(54500), Num(600000)>>], 3),
         Rows([timestamp |-> <<Time(5), Time(5), Time(3), Time(3), Text>>,
               data_type |-> <<Name(1), Name(1), Name(1), Name(2), Name(3)>>,
               value |-> <<Num(20000), Num(21000), Num(18000), Num(7000), Num(12000)>>], 5),
         Rows([data_type |-> <<Name(4), Name(2), Name(4)>>,
               value |-> <<Num(40000), Num(21000), Missing>>,
               location |-> <<Place, Place, Place>>], 3),
         Rows([data_type |-> <<Name(1), Name(2)>>, value |-> <<Text, Num(21000)>>], 2),
         Rows([salinity |-> [i \in 1 .. 12 |-> IF i = 7 THEN Num(44000)
                                                ELSE Num(30000 + 100 * i)],
               ozone |-> [i \in 1 .. 12 |-> IF i = 3 THEN Num(200000)
                                             ELSE IF i = 8 THEN Num(1000)
                                             ELSE Num(50000 + 1000 * i)]], 12)}}

PreprocessorInputs ==
    /\ raw_data \in RawInputs \cup ReadingBatches \cup ShapedBatches
    /\ failing_stages \in {{}} \cup {{stage} : stage \in Stages}
    /\ feature_table = NoTable
    /\ reapplied_table = NoTable

InitPreprocessor ==
    /\ component = "preprocessor"
    /\ IdleAnomaly
    /\ IdleThreat
    /\ IdlePredictor
    /\ PreprocessorInputs
    /\ IdleFunctions
    /\ IdleConcurrent
    /\ last_call = NoCall
    /\ outcome = "idle"

NextPreprocessor == DP_PrepareFeatures \/ DP_PrepareFeaturesAgain

SpecPreprocessor == InitPreprocessor /\ [][NextPreprocessor]_vars

InitAll ==
    /\ component \in {"anomaly", "threat", "predictor", "preprocessor"}
    /\ IF component = "anomaly"
       THEN /\ \/ EnsembleInputs
               \/ /\ current_data \in StatBatchesUpTo(MaxRows - 1)
                  /\ historical_data = <<>>
                  /\ fit_ok = [m \in Detectors |-> TRUE]
                  /\ predict_out = [m \in Detectors |-> 0]
            /\ detector = ConstructedDetector
            /\ anomaly_result = NoResult
       ELSE IdleAnomaly
    /\ IF component = "threat" THEN ThreatInputs ELSE IdleThreat
    /\ IF component = "predictor"
       THEN /\ PredictorInputs
            /\ \A m \in Estimators : estimator_fit_ok[m]
       ELSE IdlePredictor
    /\ IF component = "preprocessor"
       THEN /\ raw_data \in RawInputs
            /\ failing_stages \in SUBSET Stages
            /\ feature_table = NoTable
            /\ reapplied_table = NoTable
       ELSE IdlePreprocessor
    /\ IdleFunctions
    /\ IdleConcurrent
    /\ last_call = NoCall
    /\ outcome = "idle"

Next == NextAnomaly \/ NextThreat \/ NextPredictor \/ DP_PrepareFeatures

Spec == InitAll /\ [][Next]_vars

-----------------------------------------------------------------------------
(* Properties of every component (Spec) *)

\* C1: every AnomalyResult that detect_anomalies returns (statistical,
\* ensemble or neutral) has severity in 1..5, confidence in [0, 1] and
\* anomaly_score in [0, 1], and every ThreatDetectionResult that
\* detect_threats returns has severity in 1..5 and confidence in [0, 1], for
\* inputs whose readings lie in their valid ranges.
C1_ResultRanges ==
    /\ last_call.op = "detect_anomalies" =>
           /\ anomaly_result.severity \in 1 .. 5
           /\ anomaly_result.confidence >= 0 /\ anomaly_result.confidence <= 10000
           /\ anomaly_result.anomaly_score >= 0 /\ anomaly_result.anomaly_score <= 10000
    /\ \A i \in DOMAIN threat_results :
           /\ threat_results[i].severity \in 1 .. 5
           /\ threat_results[i].confidence >= 0
           /\ threat_results[i].confidence <= 10000

\* C1 witness: an erosion result for waves and wind beyond the values at
\* which the rule's factors saturate: confidence 1.0, severity 5.
C1_Witness ==
    /\ last_call.op = "detect_threats"
    /\ environmental_data # <<>>
    /\ environmental_data[Len(environmental_data)] = [wave_height |-> 30, wind_speed |-> 130]
    /\ \E i \in DOMAIN threat_results :
           /\ threat_results[i].threat_type = "erosion"
           /\ threat_results[i].confidence = 10000
           /\ threat_results[i].severity = 5

\* C5: for any input and any failure inside a sub-model, detect_anomalies,
\* predict_threats, detect_threats and prepare_features never raise to the
\* caller, and each returns a value of its result type: an AnomalyResult, a
\* PredictionResult, a list of ThreatDetectionResults, a table.
C5_NeverRaises ==
    /\ outcome # "raised"
    /\ last_call.op = "detect_anomalies" =>
           /\ anomaly_result.detection_method \in {"statistical", "ensemble_ml", "none"}
           /\ anomaly_result.is_anomaly \in BOOLEAN
    /\ last_call.op = "predict_threats" =>
           /\ prediction_result # NoPrediction
           /\ DOMAIN prediction_result.predictions \subseteq PredictionParameters
    /\ last_call.op = "detect_threats" =>
           \A i \in DOMAIN threat_results : threat_results[i].threat_type \in ThreatTypes
    /\ last_call.op = "prepare_features" =>
           /\ feature_table # NoTable
           /\ feature_table.applied \subseteq Stages

\* C5 witness: the scaler of the ensemble path raises on the current data,
\* and detect_anomalies returns a neutral AnomalyResult that reports it.
C5_Witness ==
    /\ last_call.op = "detect_anomalies"
    /\ outcome = "returned"
    /\ anomaly_result.detection_method = "none"
    /\ anomaly_result.error = "ML detection error"

-----------------------------------------------------------------------------
(* Properties of the threat detection engine (SpecThreat) *)

\* C2: with no trained storm model, the storm result of a detect_threats call
\* on an initialised engine follows the bracket ladder on the latest row
\* (a missing reading is read as 0, an absent pressure column as 1013):
\* wind_speed > 118 gives severity 5 / confidence 0.95, > 88 gives 4 / 0.85,
\* > 62 gives 3 / 0.75, > 39 gives 2 / 0.65, otherwise 1 / 0.0; pressure < 980
\* adds 0.15 confidence (capped at 1.0) and 1 severity (capped at 5); the
\* threat is detected when the confidence reaches 0.80; wind_speed 130 with
\* pressure 970 yields severity 5, detected, confidence >= 0.95.
C2_StormRuleLadder ==
    (last_call.op = "detect_threats" /\ environmental_data # <<>>) =>
    \A i \in DOMAIN threat_results :
        LET r == threat_results[i]
            latest == environmental_data[Len(environmental_data)]
            wind == IF "wind_speed" \notin DOMAIN latest THEN 0
                    ELSE IF latest.wind_speed = NaN THEN 0 ELSE latest.wind_speed
            pressure == IF "pressure" \notin DOMAIN latest THEN 1013
                        ELSE IF latest.pressure = NaN THEN 0 ELSE latest.pressure
            bracket == IF wind > 118 THEN <<5, 9500>>
                       ELSE IF wind > 88 THEN <<4, 8500>>
                       ELSE IF wind > 62 THEN <<3, 7500>>
                       ELSE IF wind > 39 THEN <<2, 6500>>
                       ELSE <<1, 0>>
            boost == pressure < 980
        IN  (r.threat_type = "storm" /\ wind # Str /\ pressure # Str) =>
                /\ r.detection_method = "rule_based"
                /\ r.severity = IF boost /\ bracket[1] < 5 THEN bracket[1] + 1 ELSE bracket[1]
                /\ r.confidence = IF ~boost THEN bracket[2]
                                  ELSE IF bracket[2] + 1500 > 10000 THEN 10000
                                  ELSE bracket[2] + 1500
                /\ r.detected = (r.confidence >= 8000)
                /\ (wind = 130 /\ pressure = 970) =>
                       (r.severity = 5 /\ r.detected /\ r.confidence >= 9500)

\* C2 witness: the storm result for a latest row {wind_speed: 130, pressure: 970}.
C2_Witness ==
    /\ last_call.op = "detect_threats"
    /\ environmental_data # <<>>
    /\ environmental_data[Len(environmental_data)] = [wind_speed |-> 130, pressure |-> 970]
    /\ \E i \in DOMAIN threat_results :
           /\ threat_results[i].threat_type = "storm"
           /\ threat_results[i].severity = 5
           /\ threat_results[i].detected

\* C3: for the storm category, of two inputs that differ only in the latest
\* wind_speed the one with the larger wind_speed never gets the smaller
\* severity, for every pressure (below 980 too): the severity returned for
\* the batch is at most the storm severity of the same latest row with any
\* larger wind speed, and at least that with any smaller one.
C3_StormSeverityMonotone ==
    (last_call.op = "detect_threats" /\ environmental_data # <<>>) =>
    \A i \in DOMAIN threat_results :
        LET r == threat_results[i]
            data == ThreatPrepareFeatures(environmental_data)
            latest == data.rows[Len(data.rows)]
            features == ThreatFeatures("storm") \cap data.cols
            other(w) == [c \in features |-> IF c = "wind_speed" THEN w ELSE latest[c]]
        IN  (r.threat_type = "storm" /\ "wind_speed" \in data.cols
                /\ latest.wind_speed # Str) =>
            \A w \in WindSpeeds \cup {200} :
                /\ w >= latest.wind_speed =>
                       RuleBasedDetection("storm", other(w)).severity >= r.severity
                /\ w <= latest.wind_speed =>
                       RuleBasedDetection("storm", other(w)).severity <= r.severity

\* C3 witness: a storm result in a bracket in the middle of the ladder, with
\* the pressure boost applied.
C3_Witness ==
    /\ last_call.op = "detect_threats"
    /\ environmental_data # <<>>
    /\ environmental_data[Len(environmental_data)] = [wind_speed |-> 63, pressure |-> 979]
    /\ \E i \in DOMAIN threat_results :
           threat_results[i].threat_type = "storm" /\ threat_results[i].severity = 4

\* C4: after initialize_models, detect_threats on non-empty data returns one
\* result for each requested entry (each registered category when none is
\* requested) that names a registered category with at least 2 of its
\* required features among the input columns, in the order requested, and no
\* other result: none for a category with fewer than 2 features, and none
\* is omitted, detected or not.
C4_OneResultPerEvaluatedCategory ==
    (last_call.op = "detect_threats" /\ last_call.initialized
        /\ environmental_data # <<>> /\ detection_models.iterable) =>
    LET columns == DOMAIN environmental_data[1]
        requested == IF detection_models.given /\ detection_models.list # <<>>
                     THEN detection_models.list ELSE ThreatTypeOrder
        evaluated(t) == /\ t \in ThreatTypes
                        /\ Cardinality(ThreatFeatures(t) \cap columns) >= 2
        expected == SelectSeq(requested, evaluated)
    IN  /\ Len(threat_results) = Len(expected)
        /\ \A i \in DOMAIN expected : threat_results[i].threat_type = expected[i]

\* C4 witness: a call that evaluates erosion and illegal_dumping, detects
\* neither, and skips the three categories with fewer than 2 features.
C4_Witness ==
    /\ last_call.op = "detect_threats"
    /\ last_call.initialized
    /\ ~detection_models.given
    /\ Len(threat_results) = 2
    /\ threat_results[1].threat_type = "erosion"
    /\ threat_results[2].threat_type = "illegal_dumping"
    /\ ~threat_results[1].detected
    /\ ~threat_results[2].detected

-----------------------------------------------------------------------------
(* Properties of the anomaly detector's statistical path (SpecAnomalyStat) *)

\* C6: when detect_anomalies is called with no historical data on an
\* untrained detector, and the current data has a row and a numeric column,
\* the result has detection_method "statistical"; affected_parameters is
\* exactly the columns whose weighted score (anomalous fraction times
\* importance weight) is greater than 0.3; anomaly_score is the mean of those
\* weighted scores to the four decimals the result keeps (0 if there is
\* none); is_anomaly is true exactly when that mean is greater than 0.5.
C6_StatisticalVerdict ==
    LET frame == PrepareFeatures(current_data)
        n == Len(frame.rows)
        scored == {c \in frame.cols : DropNa(Column(frame, c)) # <<>>}
        \* weighted score of c = w10[c] / (10 * n)
        w10 == [c \in scored |->
                   AnomalyCount(DropNa(Column(frame, c))) * ParameterWeight10(c)]
        above == {c \in scored : 10 * w10[c] > 3 * 10 * n}
        num == SumOver(above, w10)
        den == 10 * n * Cardinality(above)
        r == anomaly_result
    IN  (last_call.op = "detect_anomalies" /\ ~last_call.historical
            /\ ~last_call.is_trained_before /\ ~FrameEmpty(frame)) =>
        /\ r.detection_method = "statistical"
        /\ {r.affected_parameters[i] : i \in DOMAIN r.affected_parameters} = above
        /\ Len(r.affected_parameters) = Cardinality(above)
        /\ above = {} => (r.anomaly_score = 0 /\ ~r.is_anomaly)
        /\ above # {} =>
               /\ 2 * Abs(r.anomaly_score * den - 10000 * num) <= den
               /\ r.is_anomaly = (2 * num > den)

\* C6 witness: a statistical result with an affected column and a mean
\* weighted score above 0.5.
C6_Witness ==
    /\ last_call.op = "detect_anomalies"
    /\ ~last_call.historical
    /\ ~last_call.is_trained_before
    /\ anomaly_result.detection_method = "statistical"
    /\ anomaly_result.affected_parameters = <<"pm25">>
    /\ anomaly_result.is_anomaly

\* C7 (the code differs): a batch of a single row, which is fewer rows than
\* any minimum sample count above one, is scored on the statistical path
\* instead of getting the neutral result.
C7_SingleRowScored ==
    /\ last_call.op = "detect_anomalies"
    /\ Len(current_data) = 1
    /\ anomaly_result.detection_method = "statistical"

-----------------------------------------------------------------------------
(* Properties of the anomaly detector's ensemble path (SpecAnomalyEns) *)

\* C8: if some but not all detectors raise while being fitted on the
\* historical data, and a fitted detector produces output for current data
\* of the same columns, the call that trains returns detection_method
\* "ensemble_ml" with the votes of exactly the detectors that were fitted and
\* produced output, and an anomaly_score that is the mean of their anomalous
\* fractions (to four decimals); and no ensemble result, of this or a later
\* call, holds the vote of a detector whose fit raised.
C8_PartialFitFailure ==
    LET usable == {m \in Detectors : fit_ok[m] /\ predict_out[m] # NoOutput}
        num == SumOver(usable, predict_out)
        den == Len(current_data) * Cardinality(usable)
        r == anomaly_result
    IN  /\ (/\ last_call.op = "detect_anomalies"
            /\ last_call.historical /\ last_call.initialized
            /\ ~last_call.is_trained_before
            /\ historical_data # <<>>
            /\ DOMAIN historical_data[1] = DOMAIN current_data[1]
            /\ \E m \in Detectors : ~fit_ok[m]
            /\ usable # {}) =>
                /\ r.detection_method = "ensemble_ml"
                /\ r.baseline_comparison = usable
                /\ 2 * Abs(r.anomaly_score * den - 10000 * num) <= den
        /\ r.detection_method = "ensemble_ml" =>
               \A m \in r.baseline_comparison : fit_ok[m]

\* C8 witness: two of the four detectors raise in fit, the other two vote
\* and flag a row.
C8_Witness ==
    /\ last_call.op = "detect_anomalies"
    /\ last_call.historical
    /\ ~last_call.is_trained_before
    /\ Cardinality({m \in Detectors : ~fit_ok[m]}) = 2
    /\ anomaly_result.detection_method = "ensemble_ml"
    /\ Cardinality(anomaly_result.baseline_comparison) = 2
    /\ anomaly_result.anomaly_score > 0

\* C9 (the code differs): every detector fails to fit on the historical data,
\* and the call returns the neutral result, not the statistical one.
C9_AllFailGivesNeutral ==
    /\ last_call.op = "detect_anomalies"
    /\ last_call.historical /\ last_call.initialized
    /\ ~last_call.is_trained_before
    /\ historical_data # <<>>
    /\ DOMAIN historical_data[1] = DOMAIN current_data[1]
    /\ \A m \in Detectors : ~fit_ok[m]
    /\ anomaly_result.detection_method = "none"
    /\ anomaly_result.error = "No model predictions available"

\* C10 (the code differs): on the ensemble path with a baseline whose
\* standard deviation is 0, a latest value above 120% of the baseline maximum
\* is not in affected_parameters.
C10_RangeTestSkippedAtZeroStd ==
    /\ anomaly_result.detection_method = "ensemble_ml"
    /\ historical_data = <<[temperature |-> 100], [temperature |-> 100]>>
    /\ current_data = <<[temperature |-> 125]>>
    /\ detector.baseline_stats.temperature.max = 100
    /\ anomaly_result.affected_parameters = <<>>

-----------------------------------------------------------------------------
(* Properties of the threat predictor (SpecPredictor) *)

\* The values of a parameter's column as _predict_parameter reads them.
ParameterValues(history, parameter) ==
    SelectSeq(Column(PredictorPrepareFeatures(history), parameter), LAMBDA c : c # NaN)

\* C11: predict_threats called with fewer than min_data_points (50)
\* historical rows, the empty list included, returns a PredictionResult with
\* empty predictions, confidence_intervals, trend_analysis, risk_assessment
\* and alerts_predicted and the insufficient-data message; it raises nothing
\* and leaves every (parameter, horizon) model and is_trained flag unchanged.
C11_InsufficientHistory ==
    [][(last_call'.op = "predict_threats" /\ Len(forecast_history') < MinDataPoints) =>
          /\ outcome' = "returned"
          /\ prediction_result'.predictions = <<>>
          /\ prediction_result'.confidence_intervals = <<>>
          /\ prediction_result'.trend_analysis = <<>>
          /\ prediction_result'.risk_assessment = <<>>
          /\ prediction_result'.alerts_predicted = <<>>
          /\ prediction_result'.error = "Insufficient historical data"
          /\ predictor'.models = predictor.models
          /\ predictor'.is_trained = predictor.is_trained]_vars

\* C11 witness: a predictor with a trained pair is given a history one row
\* short of the minimum and answers with the empty prediction.
C11_Witness ==
    /\ last_call.op = "predict_threats"
    /\ Len(forecast_history) = MinDataPoints - 1
    /\ prediction_result.error = "Insufficient historical data"
    /\ \E key \in DOMAIN predictor.is_trained : predictor.is_trained[key]

\* C12: the regressors registered for (parameter, h) are trained on examples
\* whose label is the value exactly h steps after the end of the feature
\* window, and a value predicted for the horizon h comes from regressors
\* trained on the labels of h.  (The code builds one example set per call,
\* with the labels of max(forecast_hours), and trains every horizon on it.)
C12_LabelsOfOwnHorizon ==
    /\ \A key \in DOMAIN predictor.models :
           predictor.models[key].fitted => predictor.models[key].label_step = key[2]
    /\ \A p \in DOMAIN prediction_result.provenance :
           \A i \in DOMAIN prediction_result.provenance[p] :
               prediction_result.provenance[p][i].method = "ensemble" =>
                   prediction_result.provenance[p][i].label_step =
                       prediction_result.forecast_hours[i]

\* The entry of the furthest requested horizon.
FurthestIndex(hours) == CHOOSE i \in DOMAIN hours : \A j \in DOMAIN hours : hours[i] >= hours[j]

\* C13: trend_analysis[p] is "increasing" when the prediction for the furthest
\* requested horizon exceeds the latest observed value by more than 5% of
\* that value, "decreasing" when it is below it by more than 5%, and "stable"
\* otherwise (exactly 5% is stable), for any order of forecast_hours.
C13_TrendOfFurthestHorizon ==
    last_call.op = "predict_threats" =>
        \A p \in DOMAIN prediction_result.predictions :
            prediction_result.predictions[p] # <<>> =>
                LET values == ParameterValues(forecast_history, p)
                    current_value == values[Len(values)]
                    future_value ==
                        prediction_result.predictions[p][
                            FurthestIndex(prediction_result.forecast_hours)]
                    change == future_value.num - current_value * future_value.den
                    margin == 5 * current_value * future_value.den
                IN  prediction_result.trend_analysis[p] =
                        IF change * 100 > margin THEN "increasing"
                        ELSE IF (0 - change) * 100 > margin THEN "decreasing"
                        ELSE "stable"

\* C14: for every parameter p of a returned PredictionResult, predictions[p]
\* and confidence_intervals[p] have exactly one entry per element of
\* forecast_hours, and trend_analysis[p] is one of "increasing",
\* "decreasing", "stable", "unknown".
C14_OneEntryPerHorizon ==
    last_call.op = "predict_threats" =>
        \A p \in DOMAIN prediction_result.predictions :
            /\ Len(prediction_result.predictions[p]) = Len(prediction_result.forecast_hours)
            /\ Len(prediction_result.confidence_intervals[p]) =
                   Len(prediction_result.forecast_hours)
            /\ prediction_result.trend_analysis[p] \in
                   {"increasing", "decreasing", "stable", "unknown"}

\* C15: when the ensemble of a (parameter, horizon) pair cannot be trained
\* because fewer than 10 training examples exist, the value reported for that
\* horizon is the linear-trend extrapolation over the last 12 observations,
\* with the interval (0.9 * prediction, 1.1 * prediction), whether or not
\* initialize_models has registered an ensemble for the pair.
C15_TrendFallbackWhenUntrainable ==
    last_call.op = "predict_threats" =>
        \A p \in DOMAIN prediction_result.predictions :
            \A i \in DOMAIN prediction_result.predictions[p] :
                LET values == ParameterValues(forecast_history, p)
                    hours == prediction_result.forecast_hours
                    trend_pred == SimpleTrendPrediction(values, hours[i])
                IN  (/\ SampleCount(Len(values), SeqMax(hours)) < 10
                     /\ ~IsTrained(predictor, <<p, hours[i]>>)) =>
                        /\ prediction_result.predictions[p][i] = trend_pred
                        /\ prediction_result.confidence_intervals[p][i] =
                               [lower |-> Scaled(trend_pred, 90),
                                upper |-> Scaled(trend_pred, 110)]

-----------------------------------------------------------------------------
(* Properties of ThreatDetectionAI._calculate_severity (SpecSeverity) *)

\* The highest level of the category's severity threshold table whose
\* thresholds the feature values all satisfy (0 when none is).
HighestSatisfiedLevel(threat_type, features) ==
    LET satisfied == {l \in DOMAIN SeverityThresholds(threat_type) :
                        MeetsThreshold(SeverityThresholds(threat_type)[l], features)}
    IN  IF satisfied = {} THEN 0 ELSE CHOOSE l \in satisfied : \A k \in satisfied : l >= k

\* C16: the severity reported for a category equals the maximum of the
\* confidence-derived severity and the highest level of the category's
\* severity threshold table whose thresholds are all satisfied by the
\* feature values, so it is never below that level.
C16_SeverityReconciledWithTable ==
    outcome = "returned" /\ call_args.fn = "_calculate_severity" =>
        call_value = Max2(BaseSeverity(call_args.confidence),
                          HighestSatisfiedLevel(call_args.threat_type, call_args.features))

-----------------------------------------------------------------------------
(* Properties of DataPreprocessor.prepare_features (SpecPreprocessor) *)

\* prepare_features was given a list of records with at least one field, and
\* no step of the pipeline was made to raise.
PreparedFromRecords ==
    /\ last_call.op \in {"prepare_features", "prepare_features_again"}
    /\ failing_stages = {}
    /\ raw_data.is_list
    /\ raw_data.rows # <<>>
    /\ DOMAIN raw_data.rows[1] # {}

AllMissing(cells) == \A i \in DOMAIN cells : IsMissing(cells[i])

\* C17: every column of the table prepare_features returns is numeric and
\* holds no missing cell, for any non-empty input, records with timestamp
\* or location fields and records with an unparseable timestamp included.
C17_AllColumnsNumericAndComplete ==
    PreparedFromRecords =>
        \A c \in Columns(feature_table) :
            /\ feature_table.dtype[c] = "number"
            /\ ~HasMissing(feature_table.data[c])

\* C18: a column whose values are all missing when the missing-value policy
\* is applied (missing in the input, or all set to missing by the
\* enforcement of the valid range) is absent from the table prepare_features
\* returns; it is not handed on as a column of zeros.
C18_AllMissingColumnAbsent ==
    PreparedFromRecords =>
        LET raw == TableOf(raw_data.rows)
            cleaned == CleanAndStandardize(raw)
        IN  /\ \A k \in Columns(raw) :
                   AllMissing(raw.data[k]) => CanonicalName(k) \notin Columns(feature_table)
            /\ \A c \in NumericCols(cleaned) :
                   AllMissing(cleaned.data[c]) => c \notin Columns(feature_table)

\* C19: prepare_features applied to the records of its own output returns
\* the same columns with the same values as the first application.
C19_PreprocessingIdempotent ==
    (PreparedFromRecords /\ last_call.op = "prepare_features_again") =>
        /\ Columns(reapplied_table) = Columns(feature_table)
        /\ reapplied_table.data = feature_table.data

-----------------------------------------------------------------------------
(* Properties of the AQI sub-indices (SpecAqi) *)

BreakpointsOf(fn) == IF fn = "_calculate_aqi_pm25" THEN Pm25Breakpoints ELSE Pm10Breakpoints

\* The tier that contains a concentration between 0 and the top breakpoint:
\* the first one whose upper breakpoint is not below it.
ContainingTier(breakpoints, c) ==
    CHOOSE k \in DOMAIN breakpoints :
        /\ c <= breakpoints[k][2]
        /\ \A j \in DOMAIN breakpoints : c <= breakpoints[j][2] => k <= j

\* The rounded linear interpolation inside tier k
TierInterpolation(breakpoints, k, c) ==
    LET bp == breakpoints[k]
    IN  RoundHalfEven((bp[4] - bp[3]) * (c - bp[1]) + bp[3] * (bp[2] - bp[1]), bp[2] - bp[1])

\* C20: the PM2.5 / PM10 sub-index of a concentration between 0 and the top
\* breakpoint is the rounded linear interpolation inside the tier that
\* contains it, 500 is returned only above the top breakpoint, and the
\* sub-index of a lower concentration is never higher.
C20_AqiInterpolatesWithinTiers ==
    (/\ outcome = "returned"
     /\ call_args.fn \in {"_calculate_aqi_pm25", "_calculate_aqi_pm10"}
     /\ call_args.cell.kind = "num") =>
        LET breakpoints == BreakpointsOf(call_args.fn)
            top == breakpoints[Len(breakpoints)][2]
            c == call_args.cell.v
            aqi == call_value.v \div 1000
        IN  /\ c <= top =>
                   aqi = TierInterpolation(breakpoints, ContainingTier(breakpoints, c), c)
            /\ aqi = Hazardous => c > top
            /\ \A lower \in Concentrations(breakpoints) :
                   lower <= c => AqiOf(breakpoints, lower) <= aqi

\* C21: every parameter column of the table prepare_features returns carries
\* its canonical name: no column is named by a key of the synonym table
\* (temp, wspd, ...), for wide records and for long-format records alike.
C21_CanonicalColumnNames ==
    (PreparedFromRecords /\ last_call.op = "prepare_features") =>
        \A c \in Columns(feature_table) : c \notin DOMAIN ParameterMappings

-----------------------------------------------------------------------------
\* The parts of the model state a call has read.
PartsSeen(c) ==
    {calls[c].seen[part] : part \in {"scaler", "fitted", "models", "stats"}} \ {Unread}

\* C22: a call that overlaps a training of its key reads the model state of
\* one moment: a call that did not train and found the key trained has read
\* every part (scaler, fitted models, published models, baseline statistics
\* or performance record) as one and the same training wrote it.
C22_ReadsOneModelState ==
    \A c \in Callers :
        (calls[c].seen.is_trained /\ ~calls[c].trained) =>
            \E w \in Callers : PartsSeen(c) \subseteq {w}

\* C23: at most one training of a key is in progress at any time.
C23_OneTrainingPerKey ==
    \A c1, c2 \in Callers :
        (/\ calls[c1].pc \in TrainingSteps
         /\ calls[c2].pc \in TrainingSteps
         /\ StateOf(c1) = StateOf(c2)) => c1 = c2

\* C24: a predict_threats call with a negative forecast horizon or with a
\* malformed location ends with an exception raised to the caller.
C24_ContractViolationsRaise ==
    (/\ last_call.op = "predict_threats"
     /\ \/ \E i \in DOMAIN forecast_hours.list : forecast_hours.list[i] < 0
        \/ last_call.location \in MalformedLocations)
        => outcome = "raised"

\* The thresholds of the parameter's table the value has reached: at or above
\* the threshold, for pressure and visibility at or below it.
ThresholdsReached(parameter, value) ==
    {i \in DOMAIN RiskThresholds(parameter) :
        IF parameter \in {"pressure", "visibility"}
        THEN value.num <= RiskThresholds(parameter)[i] * value.den
        ELSE value.num >= RiskThresholds(parameter)[i] * value.den}

\* C25: for a parameter with a risk threshold table, _assess_threat_severity
\* returns 1 plus the number of thresholds the predicted value has reached.
C25_SeverityCountsThresholds ==
    (/\ call_args.fn = "_assess_threat_severity"
     /\ call_value # NoValue
     /\ RiskThresholds(call_args.parameter) # <<>>)
        => call_value = 1 + Cardinality(ThresholdsReached(call_args.parameter,
                                                          call_args.value))

\* C26: every confidence interval of a result contains the predicted value
\* it belongs to: lower <= predicted value <= upper.
C26_IntervalContainsPrediction ==
    last_call.op = "predict_threats" =>
        \A q \in DOMAIN prediction_result.confidence_intervals :
            \A i \in DOMAIN prediction_result.confidence_intervals[q] :
                /\ FracLeq(prediction_result.confidence_intervals[q][i].lower,
                           prediction_result.predictions[q][i])
                /\ FracLeq(prediction_result.predictions[q][i],
                           prediction_result.confidence_intervals[q][i].upper)

\* C27: whenever the detector's is_trained is true, its 'robust' scaler
\* exists and is fitted and every model of self.models is fitted.
C27_TrainedMeansFitted ==
    detector.is_trained =>
        /\ detector.scalers
        /\ detector.scaler_fitted
        /\ detector.models \subseteq detector.fitted

C29_IllegalDumpingNeverDetected ==
    \A i \in DOMAIN threat_results :
        (/\ threat_results[i].threat_type = "illegal_dumping"
         /\ threat_results[i].detection_method = "rule_based")
            => /\ threat_results[i].confidence <= 6000
               /\ ~threat_results[i].detected

\* The rule has fired: an illegal_dumping result with confidence 0.60.
C29_Witness ==
    \E i \in DOMAIN threat_results :
        /\ threat_results[i].threat_type = "illegal_dumping"
        /\ threat_results[i].detection_method = "rule_based"
        /\ threat_results[i].confidence = 6000
        /\ ~threat_results[i].detected

\* C30: a value predicted by the regressors of a (parameter, horizon) pair was
\* computed from the kind of features those regressors were fitted on: the
\* output of the pair's scaler.
C30_PredictsFromScaledFeatures ==
    last_call.op = "predict_threats" =>
        \A q \in DOMAIN prediction_result.provenance :
            \A i \in DOMAIN prediction_result.provenance[q] :
                prediction_result.provenance[q][i].method = "ensemble" =>
                    /\ prediction_result.provenance[q][i].features = TrainingFeatures
                    /\ prediction_result.provenance[q][i].features =
                           predictor.models[<<q, prediction_result.forecast_hours[i]>>].features

====
